---- MODULE Spec2Model ----
(***************************************************************************)
(* A model of app.py, the football chatbot: the date extractor             *)
(* (parse_date_from_query), the match formatter (format_matches_data),     *)
(* the direct date path (handle_date_based_query), the endpoint resolver   *)
(* (ask_gemini_for_endpoint), the API call normalizer                      *)
(* (make_football_api_call), the narrator (format_response_with_gemini)    *)
(* and the orchestrator (chatbot_response).                                *)
(*                                                                         *)
(* Text is a sequence of one-character strings, so that searching,         *)
(* lower-casing, parsing and formatting are computed character by          *)
(* character.  A JSON value is a record tagged by its field t.  A Python   *)
(* exception that leaves a function is the value Raised(kind).             *)
(***************************************************************************)
EXTENDS Integers, Sequences, FiniteSets, TLC

VARIABLES
    pc,               \* position of the running operation
    query,            \* the user's query text
    now,              \* datetime.now() as [y, m, d]
    date_info,        \* result of parse_date_from_query
    matches_data,     \* body handed to format_matches_data
    formatted,        \* result of format_matches_data / handle_date_based_query
    llm_reply,        \* what the model answered to the endpoint resolver
    endpoint_info,    \* result of ask_gemini_for_endpoint
    provider_outcome, \* what the data provider answered to the last request
    api_response,     \* result of make_football_api_call
    result,           \* what chatbot_response returned
    fetches,          \* dates requested by get_matches_by_date, in order
    narrations,       \* calls of format_response_with_gemini, in order
    resolver_calls,   \* number of calls of ask_gemini_for_endpoint
    normalizer_calls, \* number of calls of make_football_api_call
    gets              \* GET requests issued by make_football_api_call, in order

vars ==
    <<pc, query, now, date_info, matches_data, formatted, llm_reply,
      endpoint_info, provider_outcome, api_response, result, fetches,
      narrations, resolver_calls, normalizer_calls, gets>>

(***************************************************************************)
(* Text                                                                    *)
(***************************************************************************)

Digits ==
    <<"0", "1", "2", "3", "4", "5", "6", "7", "8", "9">>

UpperChars ==
    <<"A", "B", "C", "D", "E", "F", "G", "H", "I", "J", "K", "L", "M",
      "N", "O", "P", "Q", "R", "S", "T", "U", "V", "W", "X", "Y", "Z">>

LowerChars ==
    <<"a", "b", "c", "d", "e", "f", "g", "h", "i", "j", "k", "l", "m",
      "n", "o", "p", "q", "r", "s", "t", "u", "v", "w", "x", "y", "z">>

IsDigit(c) ==
    \E i \in 1..10 : Digits[i] = c

DigitVal(c) ==
    (CHOOSE i \in 1..10 : Digits[i] = c) - 1

\* str.lower() of one character
LowerChar(c) ==
    IF \E i \in 1..26 : UpperChars[i] = c
    THEN LowerChars[CHOOSE i \in 1..26 : UpperChars[i] = c]
    ELSE c

\* str.upper() of one character
UpperChar(c) ==
    IF \E i \in 1..26 : LowerChars[i] = c
    THEN UpperChars[CHOOSE i \in 1..26 : LowerChars[i] = c]
    ELSE c

\* str.lower()
Lower(s) ==
    [i \in 1..Len(s) |-> LowerChar(s[i])]

\* str.upper()
Upper(s) ==
    [i \in 1..Len(s) |-> UpperChar(s[i])]

\* s[i : i + len(sub)] == sub
OccursAt(s, sub, i) ==
    /\ i >= 1
    /\ i + Len(sub) - 1 <= Len(s)
    /\ \A k \in 1..Len(sub) : s[i + k - 1] = sub[k]

\* Python's  sub in s
Contains(s, sub) ==
    \E i \in 1..(Len(s) + 1) : OccursAt(s, sub, i)

\* the value None where a text is expected: no text equals it, since every
\* element of a text is a single character
NoneStr ==
    <<"None">>

\* concatenation of a sequence of texts
RECURSIVE Concat(_)
Concat(parts) ==
    IF parts = <<>> THEN <<>> ELSE Head(parts) \o Concat(Tail(parts))

(***************************************************************************)
(* Calendar: datetime, timedelta, strptime, strftime                       *)
(***************************************************************************)

IsLeap(y) ==
    (y % 4 = 0 /\ y % 100 # 0) \/ y % 400 = 0

DaysInMonth(y, m) ==
    IF m = 2 THEN (IF IsLeap(y) THEN 29 ELSE 28)
    ELSE IF m \in {4, 6, 9, 11} THEN 30 ELSE 31

\* datetime(y, m, d) accepts these and raises ValueError on the rest
ValidDate(y, m, d) ==
    /\ y >= 1 /\ y <= 9999
    /\ m >= 1 /\ m <= 12
    /\ d >= 1 /\ d <= DaysInMonth(y, m)

NextDay(dt) ==
    IF dt.d < DaysInMonth(dt.y, dt.m) THEN [y |-> dt.y, m |-> dt.m, d |-> dt.d + 1]
    ELSE IF dt.m < 12 THEN [y |-> dt.y, m |-> dt.m + 1, d |-> 1]
    ELSE [y |-> dt.y + 1, m |-> 1, d |-> 1]

PrevDay(dt) ==
    IF dt.d > 1 THEN [y |-> dt.y, m |-> dt.m, d |-> dt.d - 1]
    ELSE IF dt.m > 1
         THEN [y |-> dt.y, m |-> dt.m - 1, d |-> DaysInMonth(dt.y, dt.m - 1)]
    ELSE [y |-> dt.y - 1, m |-> 12, d |-> 31]

\* dt + timedelta(days=k)
RECURSIVE AddDays(_, _)
AddDays(dt, k) ==
    IF k = 0 THEN dt
    ELSE IF k > 0 THEN AddDays(NextDay(dt), k - 1)
    ELSE AddDays(PrevDay(dt), k + 1)

\* n written with exactly w decimal digits
RECURSIVE Pad(_, _)
Pad(n, w) ==
    IF w = 0 THEN <<>> ELSE Append(Pad(n \div 10, w - 1), Digits[(n % 10) + 1])

\* dt.strftime("%Y-%m-%d")
StrfIso(dt) ==
    Pad(dt.y, 4) \o <<"-">> \o Pad(dt.m, 2) \o <<"-">> \o Pad(dt.d, 2)

\* the value of the decimal digits s[from .. from + w - 1]
RECURSIVE NumAt(_, _, _)
NumAt(s, from, w) ==
    IF w = 0 THEN 0 ELSE 10 * NumAt(s, from, w - 1) + DigitVal(s[from + w - 1])

AllDigits(s, from, w) ==
    /\ from + w - 1 <= Len(s)
    /\ \A k \in 0..(w - 1) : IsDigit(s[from + k])

\* The widths strptime's regular expression tries for a directive, in the
\* order of its alternatives: %Y is \d\d\d\d, %y is \d\d, %m is
\* 1[0-2]|0[1-9]|[1-9], %d is 3[01]|[12]\d|0[1-9]|[1-9]| [1-9].
DirectiveWidths(dir) ==
    IF dir = "%Y" THEN <<4>>
    ELSE IF dir = "%y" THEN <<2>>
    ELSE <<2, 1>>

\* whether the w characters at pos are accepted by the directive's expression
DirectiveAccepts(dir, s, pos, w) ==
    IF pos + w - 1 > Len(s) THEN FALSE
    ELSE IF dir = "%d" /\ w = 2 /\ s[pos] = " "
    THEN IsDigit(s[pos + 1]) /\ DigitVal(s[pos + 1]) >= 1
    ELSE /\ AllDigits(s, pos, w)
         /\ dir = "%m" => (NumAt(s, pos, w) >= 1 /\ NumAt(s, pos, w) <= 12)
         /\ dir = "%d" => (NumAt(s, pos, w) >= 1 /\ NumAt(s, pos, w) <= 31)

DirectiveValue(dir, s, pos, w) ==
    IF s[pos] = " " THEN DigitVal(s[pos + 1]) ELSE NumAt(s, pos, w)

IsDirective(item) ==
    item \in {"%Y", "%y", "%m", "%d"}

NoMatch ==
    [ok |-> FALSE]

\* The match of strptime's regular expression for fmt[k..] at s[pos..], with
\* the expression's backtracking: the first alternative of a directive after
\* which the rest of the format matches.
RECURSIVE StrpMatch(_, _, _, _, _)
StrpMatch(s, pos, fmt, k, got) ==
    IF k > Len(fmt) THEN [ok |-> TRUE, end |-> pos, got |-> got]
    ELSE IF ~IsDirective(fmt[k])
    THEN IF pos <= Len(s) /\ s[pos] = fmt[k]
         THEN StrpMatch(s, pos + 1, fmt, k + 1, got)
         ELSE NoMatch
    ELSE LET ws == DirectiveWidths(fmt[k])
             try(w) ==
                 IF DirectiveAccepts(fmt[k], s, pos, w)
                 THEN StrpMatch(s, pos + w, fmt, k + 1,
                          [got EXCEPT ![fmt[k]] = DirectiveValue(fmt[k], s, pos, w)])
                 ELSE NoMatch
             first == try(ws[1])
         IN  IF first.ok THEN first
             ELSE IF Len(ws) > 1 THEN try(ws[2])
             ELSE NoMatch

NoFields ==
    [dir \in {"%Y", "%y", "%m", "%d"} |-> -1]

\* datetime.strptime(s, fmt): [ok |-> TRUE, dt |-> the date] or
\* [ok |-> FALSE] for ValueError (no match, unconverted data, a year, month
\* or day out of range).  A two-digit year below 69 is in 2000-2068, the
\* others are in 1969-1999.
strptime(s, fmt) ==
    LET mt == StrpMatch(s, 1, fmt, 1, NoFields)
    IN  IF ~mt.ok THEN NoMatch
        ELSE IF mt.end # Len(s) + 1 THEN NoMatch
        ELSE LET y == IF mt.got["%Y"] # -1 THEN mt.got["%Y"]
                      ELSE IF mt.got["%y"] < 69 THEN 2000 + mt.got["%y"]
                      ELSE 1900 + mt.got["%y"]
                 m == mt.got["%m"]
                 d == mt.got["%d"]
             IN  IF ValidDate(y, m, d)
                 THEN [ok |-> TRUE, dt |-> [y |-> y, m |-> m, d |-> d]]
                 ELSE NoMatch

FmtYmdDash ==
    <<"%Y", "-", "%m", "-", "%d">>

FmtDmyDash ==
    <<"%d", "-", "%m", "-", "%Y">>

FmtDmySlash ==
    <<"%d", "/", "%m", "/", "%Y">>

FmtDmySlashShort ==
    <<"%d", "/", "%m", "/", "%y">>

FmtMdySlash ==
    <<"%m", "/", "%d", "/", "%Y">>

(***************************************************************************)
(* Date extractor: parse_date_from_query                                   *)
(***************************************************************************)

\* TIME_KEYWORDS, in the dictionary's order
TIME_KEYWORDS ==
    << [keyword |-> <<"y", "e", "s", "t", "e", "r", "d", "a", "y">>, days_offset |-> -1],
       [keyword |-> <<"t", "o", "d", "a", "y">>, days_offset |-> 0],
       [keyword |-> <<"t", "o", "m", "o", "r", "r", "o", "w">>, days_offset |-> 1] >>

\* date_patterns with the format each one is parsed under; "d" stands for \d
date_patterns ==
    << [re |-> <<"d", "d", "d", "d", "-", "d", "d", "-", "d", "d">>, fmt |-> FmtYmdDash],
       [re |-> <<"d", "d", "-", "d", "d", "-", "d", "d", "d", "d">>, fmt |-> FmtDmyDash],
       [re |-> <<"d", "d", "/", "d", "d", "/", "d", "d", "d", "d">>, fmt |-> FmtDmySlash],
       [re |-> <<"d", "d", "/", "d", "d", "/", "d", "d">>, fmt |-> FmtDmySlashShort] >>

\* whether the pattern matches s at position i
ReMatchAt(s, re, i) ==
    /\ i + Len(re) - 1 <= Len(s)
    /\ \A k \in 1..Len(re) :
          IF re[k] = "d" THEN IsDigit(s[i + k - 1]) ELSE s[i + k - 1] = re[k]

\* ReSearch taking the rightmost match instead of the leftmost
ReSearchRightmost(s, re) ==
    IF \E i \in 1..Len(s) : ReMatchAt(s, re, i)
    THEN CHOOSE i \in 1..Len(s) :
             /\ ReMatchAt(s, re, i)
             /\ \A j \in (i + 1)..Len(s) : ~ReMatchAt(s, re, j)
    ELSE 0

\* re.search(pattern, s): the start of the leftmost match, 0 when there is none
ReSearch(s, re) ==
    IF \E i \in 1..Len(s) : ReMatchAt(s, re, i)
    THEN CHOOSE i \in 1..Len(s) :
             /\ ReMatchAt(s, re, i)
             /\ \A j \in 1..(i - 1) : ~ReMatchAt(s, re, j)
    ELSE 0

\* the index in TIME_KEYWORDS of the first keyword that occurs in s, else 0
FirstKeyword(s) ==
    IF \E i \in 1..Len(TIME_KEYWORDS) : Contains(s, TIME_KEYWORDS[i].keyword)
    THEN CHOOSE i \in 1..Len(TIME_KEYWORDS) :
             /\ Contains(s, TIME_KEYWORDS[i].keyword)
             /\ \A j \in 1..(i - 1) : ~Contains(s, TIME_KEYWORDS[j].keyword)
    ELSE 0

\* ScanPatterns without the  except ValueError: continue : a match that
\* does not parse ends the scan
RECURSIVE ScanPatternsStopAtBadMatch(_, _)
ScanPatternsStopAtBadMatch(q, p) ==
    IF p > Len(date_patterns)
    THEN [date_str |-> NoneStr, date_type |-> "None"]
    ELSE LET at == ReSearch(q, date_patterns[p].re)
             date_str == SubSeq(q, at, at + Len(date_patterns[p].re) - 1)
             parsed == strptime(date_str, date_patterns[p].fmt)
         IN  IF at = 0 THEN ScanPatternsStopAtBadMatch(q, p + 1)
             ELSE IF parsed.ok
             THEN [date_str |-> StrfIso(parsed.dt), date_type |-> "specific"]
             ELSE [date_str |-> NoneStr, date_type |-> "None"]

\* the loop over date_patterns from pattern p on: the first pattern whose
\* leftmost match parses under its own format
RECURSIVE ScanPatterns(_, _)
ScanPatterns(q, p) ==
    IF p > Len(date_patterns)
    THEN [date_str |-> NoneStr, date_type |-> "None"]
    ELSE LET at == ReSearch(q, date_patterns[p].re)
             date_str == SubSeq(q, at, at + Len(date_patterns[p].re) - 1)
             parsed == strptime(date_str, date_patterns[p].fmt)
         IN  IF at # 0 /\ parsed.ok
             THEN [date_str |-> StrfIso(parsed.dt), date_type |-> "specific"]
             ELSE ScanPatterns(q, p + 1)

\* parse_date_from_query looking for the keywords in the query as typed
parse_date_from_query_as_typed(q, today) ==
    LET kw == FirstKeyword(q)
    IN  IF kw # 0
        THEN [date_str |-> StrfIso(AddDays(today, TIME_KEYWORDS[kw].days_offset)),
              date_type |-> "relative"]
        ELSE ScanPatterns(q, 1)

\* parse_date_from_query(query) at the moment datetime.now() is today
parse_date_from_query(q, today) ==
    LET kw == FirstKeyword(Lower(q))
    IN  IF kw # 0
        THEN [date_str |-> StrfIso(AddDays(today, TIME_KEYWORDS[kw].days_offset)),
              date_type |-> "relative"]
        ELSE ScanPatterns(q, 1)

(***************************************************************************)
(* JSON values and the Python operations the code applies to them          *)
(***************************************************************************)

JNull ==
    [t |-> "null"]

JInt(n) ==
    [t |-> "int", n |-> n]

JStr(s) ==
    [t |-> "str", s |-> s]

JList(items) ==
    [t |-> "list", items |-> items]

\* a dict: a function from its keys to JSON values
JDict(f) ==
    [t |-> "dict", d |-> f]

EmptyMap ==
    [k \in {} |-> JNull]

\* an exception that leaves the function
Raised(kind) ==
    [t |-> "raise", kind |-> kind]

IsRaised(v) ==
    v.t = "raise"

\* f with key k set to v
WithKey(f, k, v) ==
    [x \in (DOMAIN f) \cup {k} |-> IF x = k THEN v ELSE f[x]]

\* f without key k
WithoutKey(f, k) ==
    [x \in (DOMAIN f) \ {k} |-> f[x]]

\* bool(v)
Truthy(v) ==
    IF v.t = "null" THEN FALSE
    ELSE IF v.t = "int" THEN v.n # 0
    ELSE IF v.t = "bool" THEN v.b
    ELSE IF v.t = "str" THEN Len(v.s) > 0
    ELSE IF v.t = "list" THEN Len(v.items) > 0
    ELSE IF v.t = "dict" THEN DOMAIN v.d # {}
    ELSE TRUE

\* whether  key in v  raises TypeError: v is no container
InRaises(v) ==
    v.t \notin {"dict", "list", "str"}

\* key in v, for a container v and a key that is no element of any modelled
\* list and no part of any modelled text
PyIn(key, v) ==
    IF v.t = "dict" THEN key \in DOMAIN v.d ELSE FALSE

\* v[key] for a text key: KeyError on a dict without the key, TypeError on
\* a value that is no dict; an exception raised earlier in the expression
\* is passed on
Subscript(v, key) ==
    IF IsRaised(v) THEN v
    ELSE IF v.t = "dict"
    THEN IF key \in DOMAIN v.d THEN v.d[key] ELSE Raised("KeyError")
    ELSE Raised("TypeError")

\* str(n) of a natural number
RECURSIVE DecStr(_)
DecStr(n) ==
    IF n < 10 THEN <<Digits[n + 1]>> ELSE Append(DecStr(n \div 10), Digits[(n % 10) + 1])

\* the text an f-string puts for {v}
PyStr(v) ==
    IF v.t = "int" THEN DecStr(v.n)
    ELSE IF v.t = "str" THEN v.s
    ELSE IF v.t = "null" THEN <<"N", "o", "n", "e">>
    ELSE IF v.t = "bool" THEN IF v.b THEN <<"T", "r", "u", "e">> ELSE <<"F", "a", "l", "s", "e">>
    ELSE IF v.t = "list" /\ v.items = <<>> THEN <<"[", "]">>
    ELSE IF v.t = "dict" /\ DOMAIN v.d = {} THEN <<"{", "}">>
    ELSE <<"?">>

(***************************************************************************)
(* Match formatter: format_matches_data                                    *)
(***************************************************************************)

NoMatchesMessage ==
    <<"N", "o", " ", "m", "a", "t", "c", "h", "e", "s", " ", "f", "o", "u", "n", "d", " ", "o", "r", " ", "e", "r", "r", "o", "r", " ", "i", "n", " ", "d", "a", "t", "a">>

NotPlayedYet ==
    <<"N", "o", "t", " ", "p", "l", "a", "y", "e", "d", " ", "y", "e", "t">>

\* {"error": "No matches found or error in data"}
FormatError ==
    JDict([error |-> JStr(NoMatchesMessage)])

\* the body of the loop for one match: match_info, or the exception raised
\* by the first lookup that fails
match_info(match) ==
    LET competition == Subscript(Subscript(match, "competition"), "name")
        homeTeam == Subscript(Subscript(match, "homeTeam"), "shortName")
        awayTeam == Subscript(Subscript(match, "awayTeam"), "shortName")
        status == Subscript(match, "status")
        date == Subscript(match, "utcDate")
        fullTime == Subscript(Subscript(match, "score"), "fullTime")
        home == Subscript(fullTime, "home")
        away == Subscript(fullTime, "away")
        info(score) ==
            JDict([competition |-> competition, homeTeam |-> homeTeam,
                   awayTeam |-> awayTeam, status |-> status, date |-> date,
                   score |-> JStr(score)])
    IN  IF IsRaised(competition) THEN competition
        ELSE IF IsRaised(homeTeam) THEN homeTeam
        ELSE IF IsRaised(awayTeam) THEN awayTeam
        ELSE IF IsRaised(status) THEN status
        ELSE IF IsRaised(date) THEN date
        ELSE IF "score" \notin DOMAIN match.d THEN info(NotPlayedYet)
        ELSE IF IsRaised(home) THEN home
        ELSE IF home = JNull THEN info(NotPlayedYet)
        ELSE IF IsRaised(away) THEN away
        ELSE info(PyStr(home) \o <<" ", "-", " ">> \o PyStr(away))

\* the loop over matches_data['matches'] from match i on
RECURSIVE FormatLoop(_, _, _)
FormatLoop(matches, i, formatted_matches) ==
    IF i > Len(matches)
    THEN JDict([matches |-> JList(formatted_matches), count |-> JInt(Len(formatted_matches))])
    ELSE LET info == match_info(matches[i])
         IN  IF IsRaised(info) THEN info
             ELSE FormatLoop(matches, i + 1, Append(formatted_matches, info))

\* format_matches_data without the test  'error' in matches_data
format_matches_data_ignoring_error(data) ==
    IF ~Truthy(data) THEN FormatError
    ELSE IF InRaises(data) THEN Raised("TypeError")
    ELSE IF ~PyIn("matches", data) THEN FormatError
    ELSE IF data.d["matches"].t # "list" THEN Raised("TypeError")
    ELSE FormatLoop(data.d["matches"].items, 1, <<>>)

\* format_matches_data(matches_data)
format_matches_data(data) ==
    IF ~Truthy(data) THEN FormatError
    ELSE IF InRaises(data) THEN Raised("TypeError")
    ELSE IF ~PyIn("matches", data) \/ PyIn("error", data) THEN FormatError
    ELSE IF data.d["matches"].t # "list" THEN Raised("TypeError")
    ELSE FormatLoop(data.d["matches"].items, 1, <<>>)

(***************************************************************************)
(* json.loads, character by character                                      *)
(***************************************************************************)

JBool(b) ==
    [t |-> "bool", b |-> b]

\* the whitespace of json and of \s
IsSpace(c) ==
    c \in {" ", "\n", "\t", "\r"}

\* the first position from pos on that holds no whitespace
RECURSIVE SkipSpace(_, _)
SkipSpace(s, pos) ==
    IF pos <= Len(s) /\ IsSpace(s[pos]) THEN SkipSpace(s, pos + 1) ELSE pos

\* the keys of the modelled objects, as texts and as the names the model
\* indexes a dict with
KeyTable ==
    << [text |-> <<"e", "n", "d", "p", "o", "i", "n", "t">>, key |-> "endpoint"],
       [text |-> <<"p", "a", "r", "a", "m", "s">>, key |-> "params"],
       [text |-> <<"f", "i", "l", "t", "e", "r", "s">>, key |-> "filters"],
       [text |-> <<"e", "x", "p", "l", "a", "n", "a", "t", "i", "o", "n">>, key |-> "explanation"],
       [text |-> <<"i", "d">>, key |-> "id"],
       [text |-> <<"d", "a", "t", "e">>, key |-> "date"],
       [text |-> <<"d", "a", "t", "e", "F", "r", "o", "m">>, key |-> "dateFrom"],
       [text |-> <<"d", "a", "t", "e", "T", "o">>, key |-> "dateTo"],
       [text |-> <<"s", "t", "a", "t", "u", "s">>, key |-> "status"],
       [text |-> <<"s", "e", "a", "s", "o", "n">>, key |-> "season"],
       [text |-> <<"l", "i", "m", "i", "t">>, key |-> "limit"],
       [text |-> <<"m", "a", "t", "c", "h", "d", "a", "y">>, key |-> "matchday"] >>

\* the name of a key text; a key outside the table is "unknown_key"
KeyName(text) ==
    IF \E i \in 1..Len(KeyTable) : KeyTable[i].text = text
    THEN KeyTable[CHOOSE i \in 1..Len(KeyTable) : KeyTable[i].text = text].key
    ELSE "unknown_key"

ParseFail ==
    [ok |-> FALSE]

\* the position of the quote that ends the string opened before pos, 0 when
\* there is none (the modelled texts hold no backslash)
RECURSIVE ClosingQuote(_, _)
ClosingQuote(s, pos) ==
    IF pos > Len(s) THEN 0
    ELSE IF s[pos] = "\"" THEN pos
    ELSE ClosingQuote(s, pos + 1)

\* the end of the run of digits that starts at pos
RECURSIVE DigitsEnd(_, _)
DigitsEnd(s, pos) ==
    IF pos <= Len(s) /\ IsDigit(s[pos]) THEN DigitsEnd(s, pos + 1) ELSE pos

\* the JSON value that starts at pos: [ok, val, end], end being the position
\* after it; JsonMembers and JsonItems read the rest of an object and of an
\* array, a later member of the same key replacing the earlier one
RECURSIVE JsonValue(_, _)
RECURSIVE JsonMembers(_, _, _)
RECURSIVE JsonItems(_, _, _)
JsonValue(s, pos) ==
    IF pos > Len(s) THEN ParseFail
    ELSE IF s[pos] = "{"
    THEN LET p == SkipSpace(s, pos + 1)
         IN  IF p <= Len(s) /\ s[p] = "}"
             THEN [ok |-> TRUE, val |-> JDict(EmptyMap), end |-> p + 1]
             ELSE JsonMembers(s, p, EmptyMap)
    ELSE IF s[pos] = "["
    THEN LET p == SkipSpace(s, pos + 1)
         IN  IF p <= Len(s) /\ s[p] = "]"
             THEN [ok |-> TRUE, val |-> JList(<<>>), end |-> p + 1]
             ELSE JsonItems(s, p, <<>>)
    ELSE IF s[pos] = "\""
    THEN LET q == ClosingQuote(s, pos + 1)
         IN  IF q = 0 THEN ParseFail
             ELSE [ok |-> TRUE, val |-> JStr(SubSeq(s, pos + 1, q - 1)), end |-> q + 1]
    ELSE IF IsDigit(s[pos])
    THEN LET e == IF s[pos] = "0" THEN pos + 1 ELSE DigitsEnd(s, pos)
         IN  [ok |-> TRUE, val |-> JInt(NumAt(s, pos, e - pos)), end |-> e]
    ELSE IF OccursAt(s, <<"n", "u", "l", "l">>, pos)
    THEN [ok |-> TRUE, val |-> JNull, end |-> pos + 4]
    ELSE IF OccursAt(s, <<"t", "r", "u", "e">>, pos)
    THEN [ok |-> TRUE, val |-> JBool(TRUE), end |-> pos + 4]
    ELSE IF OccursAt(s, <<"f", "a", "l", "s", "e">>, pos)
    THEN [ok |-> TRUE, val |-> JBool(FALSE), end |-> pos + 5]
    ELSE ParseFail

JsonMembers(s, pos, got) ==
    IF pos > Len(s) \/ s[pos] # "\"" THEN ParseFail
    ELSE LET q == ClosingQuote(s, pos + 1)
             colon == SkipSpace(s, q + 1)
             v == JsonValue(s, SkipSpace(s, colon + 1))
             after == SkipSpace(s, v.end)
             now_got == WithKey(got, KeyName(SubSeq(s, pos + 1, q - 1)), v.val)
         IN  IF q = 0 THEN ParseFail
             ELSE IF colon > Len(s) \/ s[colon] # ":" THEN ParseFail
             ELSE IF ~v.ok THEN ParseFail
             ELSE IF after > Len(s) THEN ParseFail
             ELSE IF s[after] = "}"
             THEN [ok |-> TRUE, val |-> JDict(now_got), end |-> after + 1]
             ELSE IF s[after] = ","
             THEN JsonMembers(s, SkipSpace(s, after + 1), now_got)
             ELSE ParseFail

JsonItems(s, pos, got) ==
    LET v == JsonValue(s, pos)
        after == SkipSpace(s, v.end)
    IN  IF ~v.ok THEN ParseFail
        ELSE IF after > Len(s) THEN ParseFail
        ELSE IF s[after] = "]"
        THEN [ok |-> TRUE, val |-> JList(Append(got, v.val)), end |-> after + 1]
        ELSE IF s[after] = ","
        THEN JsonItems(s, SkipSpace(s, after + 1), Append(got, v.val))
        ELSE ParseFail

\* json.loads(text): the value, or Raised("JSONDecodeError") when the text
\* is no JSON value or holds more than one
json_loads(text) ==
    LET v == JsonValue(text, SkipSpace(text, 1))
    IN  IF v.ok /\ SkipSpace(text, v.end) = Len(text) + 1 THEN v.val
        ELSE Raised("JSONDecodeError")

(***************************************************************************)
(* Endpoint resolver: ask_gemini_for_endpoint                              *)
(***************************************************************************)

\* the character ` of a text, which no string of this language can hold
Backtick ==
    "BACKTICK"

FenceJson ==
    <<Backtick, Backtick, Backtick, "j", "s", "o", "n">>

Fence ==
    <<Backtick, Backtick, Backtick>>

\* the first position from pos on at which sub occurs in s, 0 when none
FindFrom(s, sub, pos) ==
    IF \E i \in pos..Len(s) : OccursAt(s, sub, i)
    THEN CHOOSE i \in pos..Len(s) :
             OccursAt(s, sub, i) /\ \A j \in pos..(i - 1) : ~OccursAt(s, sub, j)
    ELSE 0

\* the last position before which s holds no trailing whitespace: the end
\* of s[1..last] with the whitespace at its end removed, not below low
RECURSIVE TrimEnd(_, _, _)
TrimEnd(s, last, low) ==
    IF last >= low /\ IsSpace(s[last]) THEN TrimEnd(s, last - 1, low) ELSE last

\* the search for a ```json block, any whitespace, a shortest group, any
\* whitespace and a closing ```: [ok, text], text being the group, that is
\* what stands between the first ```json and the next ```, without the
\* whitespace around it
SearchFenced(text) ==
    LET open == FindFrom(text, FenceJson, 1)
        from == SkipSpace(text, open + Len(FenceJson))
        close == FindFrom(text, Fence, from)
    IN  IF open = 0 \/ close = 0 THEN ParseFail
        ELSE [ok |-> TRUE, text |-> SubSeq(text, from, TrimEnd(text, close - 1, from))]

\* the search for a { followed by a longest run of any characters and a }:
\* [ok, text], text being what stands from the first { to the last }
SearchBraces(text) ==
    LET open == FindFrom(text, <<"{">>, 1)
    IN  IF open = 0 \/ ~\E j \in (open + 1)..Len(text) : text[j] = "}" THEN ParseFail
        ELSE [ok |-> TRUE,
              text |-> SubSeq(text, open,
                           CHOOSE j \in (open + 1)..Len(text) :
                               text[j] = "}" /\ \A k \in (j + 1)..Len(text) : text[k] # "}")]

\* the text handed to json.loads: the fenced block, else the brace span,
\* else the whole text
ExtractJsonText(text) ==
    IF SearchFenced(text).ok THEN SearchFenced(text).text
    ELSE IF SearchBraces(text).ok THEN SearchBraces(text).text
    ELSE text

\* what ask_gemini_for_endpoint returns for a reply of the model: None when
\* the request fails (transport, status, a reply without candidates) or
\* json.loads raises, else the value json.loads gives
ask_gemini_for_endpoint(reply) ==
    IF reply.kind # "text" THEN JNull
    ELSE LET v == json_loads(ExtractJsonText(reply.text))
         IN  IF IsRaised(v) THEN JNull ELSE v

(***************************************************************************)
(* API call normalizer: make_football_api_call                             *)
(***************************************************************************)

FOOTBALL_BASE_URL ==
    <<"h", "t", "t", "p", "s", ":", "/", "/", "a", "p", "i", ".", "f", "o", "o", "t", "b", "a", "l", "l", "-", "d", "a", "t", "a", ".", "o", "r", "g", "/", "v", "4">>

COMPETITION_CODES ==
    << [name |-> <<"p", "r", "e", "m", "i", "e", "r", " ", "l", "e", "a", "g", "u", "e">>,
        code |-> <<"P", "L">>],
       [name |-> <<"l", "a", " ", "l", "i", "g", "a">>,
        code |-> <<"P", "D">>],
       [name |-> <<"b", "u", "n", "d", "e", "s", "l", "i", "g", "a">>,
        code |-> <<"B", "L", "1">>],
       [name |-> <<"s", "e", "r", "i", "e", " ", "a">>,
        code |-> <<"S", "A">>],
       [name |-> <<"l", "i", "g", "u", "e", " ", "1">>,
        code |-> <<"F", "L", "1">>],
       [name |-> <<"e", "r", "e", "d", "i", "v", "i", "s", "i", "e">>,
        code |-> <<"D", "E", "D">>],
       [name |-> <<"p", "r", "i", "m", "e", "i", "r", "a", " ", "l", "i", "g", "a">>,
        code |-> <<"P", "P", "L">>],
       [name |-> <<"c", "h", "a", "m", "p", "i", "o", "n", "s", "h", "i", "p">>,
        code |-> <<"E", "L", "C">>],
       [name |-> <<"c", "h", "a", "m", "p", "i", "o", "n", "s", " ", "l", "e", "a", "g", "u", "e">>,
        code |-> <<"C", "L">>],
       [name |-> <<"u", "e", "f", "a", " ", "c", "h", "a", "m", "p", "i", "o", "n", "s", " ", "l", "e", "a", "g", "u", "e">>,
        code |-> <<"C", "L">>],
       [name |-> <<"e", "u", "r", "o", "p", "a", " ", "l", "e", "a", "g", "u", "e">>,
        code |-> <<"E", "L">>],
       [name |-> <<"u", "e", "f", "a", " ", "e", "u", "r", "o", "p", "a", " ", "l", "e", "a", "g", "u", "e">>,
        code |-> <<"E", "L">>],
       [name |-> <<"w", "o", "r", "l", "d", " ", "c", "u", "p">>,
        code |-> <<"W", "C">>],
       [name |-> <<"f", "i", "f", "a", " ", "w", "o", "r", "l", "d", " ", "c", "u", "p">>,
        code |-> <<"W", "C">>],
       [name |-> <<"e", "u", "r", "o", "p", "e", "a", "n", " ", "c", "h", "a", "m", "p", "i", "o", "n", "s", "h", "i", "p">>,
        code |-> <<"E", "C">>],
       [name |-> <<"u", "e", "f", "a", " ", "e", "u", "r", "o", "p", "e", "a", "n", " ", "c", "h", "a", "m", "p", "i", "o", "n", "s", "h", "i", "p">>,
        code |-> <<"E", "C">>],
       [name |-> <<"c", "o", "p", "a", " ", "l", "i", "b", "e", "r", "t", "a", "d", "o", "r", "e", "s">>,
        code |-> <<"C", "L", "I">>] >>

STATUS_MAPPING ==
    << [name |-> <<"s", "c", "h", "e", "d", "u", "l", "e", "d">>,
        code |-> <<"S", "C", "H", "E", "D", "U", "L", "E", "D">>],
       [name |-> <<"l", "i", "v", "e">>,
        code |-> <<"L", "I", "V", "E">>],
       [name |-> <<"i", "n", " ", "p", "l", "a", "y">>,
        code |-> <<"I", "N", "_", "P", "L", "A", "Y">>],
       [name |-> <<"p", "a", "u", "s", "e", "d">>,
        code |-> <<"P", "A", "U", "S", "E", "D">>],
       [name |-> <<"f", "i", "n", "i", "s", "h", "e", "d">>,
        code |-> <<"F", "I", "N", "I", "S", "H", "E", "D">>],
       [name |-> <<"p", "o", "s", "t", "p", "o", "n", "e", "d">>,
        code |-> <<"P", "O", "S", "T", "P", "O", "N", "E", "D">>],
       [name |-> <<"s", "u", "s", "p", "e", "n", "d", "e", "d">>,
        code |-> <<"S", "U", "S", "P", "E", "N", "D", "E", "D">>],
       [name |-> <<"c", "a", "n", "c", "e", "l", "l", "e", "d">>,
        code |-> <<"C", "A", "N", "C", "E", "L", "L", "E", "D">>] >>

\* key in table, for a mapping written as a sequence of [name, code]
InTable(table, key) ==
    \E i \in 1..Len(table) : table[i].name = key

\* table[key]
TableAt(table, key) ==
    table[CHOOSE i \in 1..Len(table) : table[i].name = key].code

\* s.replace(old, new), for a text old that is not empty
RECURSIVE Replace(_, _, _)
Replace(s, old, new) ==
    IF Len(s) < Len(old) THEN s
    ELSE IF OccursAt(s, old, 1)
    THEN new \o Replace(SubSeq(s, Len(old) + 1, Len(s)), old, new)
    ELSE <<Head(s)>> \o Replace(Tail(s), old, new)

\* the text of a key name
KeyText(key) ==
    IF \E i \in 1..Len(KeyTable) : KeyTable[i].key = key
    THEN KeyTable[CHOOSE i \in 1..Len(KeyTable) : KeyTable[i].key = key].text
    ELSE <<"?">>

\* the key of keys that .items() gives first: the modelled dicts are
\* written in the order of KeyTable
NextKey(keys) ==
    IF \E i \in 1..Len(KeyTable) : KeyTable[i].key \in keys
    THEN KeyTable[CHOOSE i \in 1..Len(KeyTable) :
                      /\ KeyTable[i].key \in keys
                      /\ \A j \in 1..(i - 1) : KeyTable[j].key \notin keys].key
    ELSE CHOOSE k \in keys : TRUE

\* CompetitionId that leaves the id as it came
CompetitionIdAsGiven(value) ==
    value

\* the id of a competition: upper-cased when it has at most three
\* characters, then replaced by its code when it is a competition's name;
\* len() raises on a value without a length, .upper() and .lower() on a
\* value that is no text
CompetitionId(value) ==
    IF value.t \notin {"str", "list", "dict"} THEN Raised("TypeError")
    ELSE IF value.t # "str" THEN Raised("AttributeError")
    ELSE LET v == IF Len(value.s) <= 3 THEN Upper(value.s) ELSE value.s
         IN  IF InTable(COMPETITION_CODES, Lower(v))
             THEN JStr(TableAt(COMPETITION_CODES, Lower(v)))
             ELSE JStr(v)

\* one round of the loop over params: the endpoint with the placeholder
\* of param replaced by str(value)
SubstituteParam(endpoint, param, value) ==
    IF endpoint.t # "str" THEN Raised("AttributeError")
    ELSE LET v == IF param = "id" /\ OccursAt(endpoint.s, <<"/", "c", "o", "m", "p", "e", "t", "i", "t", "i", "o", "n", "s", "/">>, 1)
                  THEN CompetitionId(value)
                  ELSE value
         IN  IF IsRaised(v) THEN v
             ELSE JStr(Replace(endpoint.s, <<"{">> \o KeyText(param) \o <<"}">>, PyStr(v)))

\* the loop over params.items(), keys being the keys still to come
RECURSIVE SubstituteParams(_, _, _)
SubstituteParams(endpoint, params, keys) ==
    IF keys = {} \/ IsRaised(endpoint) THEN endpoint
    ELSE SubstituteParams(SubstituteParam(endpoint, NextKey(keys), params[NextKey(keys)]),
                          params, keys \ {NextKey(keys)})

\* the endpoint after the substitution of the path parameters
BuildEndpoint(info) ==
    LET endpoint == Subscript(info, "endpoint")
    IN  IF IsRaised(endpoint) THEN endpoint
        ELSE IF ~PyIn("params", info) THEN endpoint
        ELSE IF ~Truthy(info.d["params"]) THEN endpoint
        ELSE IF info.d["params"].t # "dict" THEN Raised("AttributeError")
        ELSE SubstituteParams(endpoint, info.d["params"].d, DOMAIN info.d["params"].d)

\* date_formats with month-first before day-first
date_formats_month_first ==
    <<FmtYmdDash, FmtDmyDash, FmtMdySlash, FmtDmySlash>>

date_formats ==
    <<FmtYmdDash, FmtDmyDash, FmtDmySlash, FmtMdySlash>>

\* the loop over date_formats from the i-th format on: the parse of text by
\* the first format that parses it, [ok |-> FALSE] when none does;
\* TryNextFormat is the loop after the parse by the i-th format
RECURSIVE FirstParse(_, _)
RECURSIVE TryNextFormat(_, _, _)
FirstParse(text, i) ==
    IF i > Len(date_formats) THEN [ok |-> FALSE]
    ELSE TryNextFormat(strptime(text, date_formats[i]), text, i)

TryNextFormat(parsed_date, text, i) ==
    IF parsed_date.ok THEN parsed_date ELSE FirstParse(text, i + 1)

\* if parsed_date: value = parsed_date.strftime("%Y-%m-%d")
IsoOrAsGiven(parsed_date, value) ==
    IF parsed_date.ok THEN JStr(StrfIso(parsed_date.dt)) ELSE value

\* the value of a date filter: the ISO form of a text that one of the
\* formats parses, else the value as it came (strptime raises TypeError on
\* a value that is no text, which the bare except swallows)
DateFilterValue(value) ==
    IF ~Truthy(value) \/ value.t # "str" THEN value
    ELSE IsoOrAsGiven(FirstParse(value.s, 1), value)

\* StatusFilterValue without the mapping
StatusFilterValueAsGiven(filter_name, value) ==
    value

\* the value of the filter "status": its code in STATUS_MAPPING when it is
\* the name of a status; .lower() raises on a value that is no text
StatusFilterValue(filter_name, value) ==
    IF filter_name # "status" THEN value
    ELSE IF value.t # "str" THEN Raised("AttributeError")
    ELSE IF InTable(STATUS_MAPPING, Lower(value.s))
    THEN JStr(TableAt(STATUS_MAPPING, Lower(value.s)))
    ELSE value

\* one round of the loop over filters: the value put under filter_name
NormalizeFilter(filter_name, value) ==
    StatusFilterValue(filter_name,
                      IF filter_name \in {"date", "dateFrom", "dateTo"}
                      THEN DateFilterValue(value)
                      ELSE value)

\* the loop over filters.items(), keys being the keys still to come: the
\* query parameters, or the exception; PutFilter is the loop after the
\* value of the filter key has been computed
RECURSIVE NormalizeFilters(_, _, _)
RECURSIVE PutFilter(_, _, _, _, _)
NormalizeFilters(filters, keys, params) ==
    IF keys = {} THEN JDict(params)
    ELSE PutFilter(filters, keys, params, NextKey(keys),
                   NormalizeFilter(NextKey(keys), filters[NextKey(keys)]))

PutFilter(filters, keys, params, key, value) ==
    IF IsRaised(value) THEN value
    ELSE NormalizeFilters(filters, keys \ {key}, WithKey(params, key, value))

\* the query parameters of the request
BuildParams(info) ==
    IF ~PyIn("filters", info) THEN JDict(EmptyMap)
    ELSE IF ~Truthy(info.d["filters"]) THEN JDict(EmptyMap)
    ELSE IF info.d["filters"].t # "dict" THEN Raised("AttributeError")
    ELSE NormalizeFilters(info.d["filters"].d, DOMAIN info.d["filters"].d, EmptyMap)

\* the query string requests.get makes of params: a key whose value is
\* None is left out, the other values are sent as their text
QueryOf(params) ==
    [k \in {x \in DOMAIN params : params[x].t # "null"} |-> PyStr(params[k])]

\* the request of an endpoint and of query parameters, or the exception
\* that one of them is: url and params are what requests.get is given,
\* query is what it sends
RequestOf(endpoint, params) ==
    IF IsRaised(endpoint) THEN endpoint
    ELSE IF IsRaised(params) THEN params
    ELSE [t |-> "request",
          url |-> FOOTBALL_BASE_URL \o PyStr(endpoint),
          params |-> params.d,
          query |-> QueryOf(params.d)]

\* what make_football_api_call hands to requests.get: [t |-> "request",
\* url, params], or the exception raised before the request
BuildRequest(info) ==
    RequestOf(BuildEndpoint(info), BuildParams(info))

\* str(e): of the message of an exception the model keeps the kind
ExceptionText(kind) ==
    IF kind = "KeyError" THEN <<"K", "e", "y", "E", "r", "r", "o", "r">>
    ELSE IF kind = "TypeError" THEN <<"T", "y", "p", "e", "E", "r", "r", "o", "r">>
    ELSE IF kind = "AttributeError" THEN <<"A", "t", "t", "r", "i", "b", "u", "t", "e", "E", "r", "r", "o", "r">>
    ELSE IF kind = "HTTPError" THEN <<"H", "T", "T", "P", "E", "r", "r", "o", "r">>
    ELSE IF kind = "ConnectionError" THEN <<"C", "o", "n", "n", "e", "c", "t", "i", "o", "n", "E", "r", "r", "o", "r">>
    ELSE <<"J", "S", "O", "N", "D", "e", "c", "o", "d", "e", "E", "r", "r", "o", "r">>

\* make_football_api_call without its except clause: the exception leaves
ErrorPropagates(kind) ==
    Raised(kind)

\* the except clause of make_football_api_call: {"error": str(e)}
ErrorPayload(kind) ==
    JDict([error |-> JStr(ExceptionText(kind))])

\* the exception an outcome of requests.get makes the call raise: the
\* request itself fails, raise_for_status() raises on an error status,
\* response.json() raises on a body that is no JSON
OutcomeException(outcome) ==
    IF outcome.kind = "exception" THEN "ConnectionError"
    ELSE IF outcome.kind = "status" THEN "HTTPError"
    ELSE "JSONDecodeError"

\* what make_football_api_call returns once requests.get has answered
ApiResult(outcome) ==
    IF outcome.kind = "ok" THEN outcome.body
    ELSE ErrorPayload(OutcomeException(outcome))

(***************************************************************************)
(* Direct date path: get_matches_by_date, handle_date_based_query          *)
(***************************************************************************)

\* what get_matches_by_date returns: the body of a 200, an error payload
\* for any other status; a failing request and a body that is no JSON raise
get_matches_by_date(outcome) ==
    IF outcome.kind = "exception" THEN Raised("ConnectionError")
    ELSE IF outcome.kind = "bad_body" THEN Raised("JSONDecodeError")
    ELSE IF outcome.kind = "ok" THEN outcome.body
    ELSE JDict([error |-> JStr(<<"A", "P", "I", " ", "E", "r", "r", "o", "r", ":", " ">>
                                 \o DecStr(outcome.status))])

\* the date_context of a query: the first keyword of TIME_KEYWORDS found
\* in a query of relative date, else the date
DateContext(q, info) ==
    IF info.date_type = "relative"
    THEN TIME_KEYWORDS[FirstKeyword(Lower(q))].keyword
    ELSE info.date_str

\* what handle_date_based_query returns once the fetch has answered: the
\* formatted matches with their date_context, or the exception
handle_date_based_query(q, info, outcome) ==
    LET data == get_matches_by_date(outcome)
        formatted_data == IF IsRaised(data) THEN data ELSE format_matches_data(data)
    IN  IF IsRaised(formatted_data) THEN formatted_data
        ELSE JDict(WithKey(formatted_data.d, "date_context", JStr(DateContext(q, info))))

(***************************************************************************)
(* Narrator: format_response_with_gemini                                   *)
(***************************************************************************)

\* the limit of the payload text, in characters
PayloadLimit ==
    10000

\* the keys of the modelled payloads with their texts, in an order that
\* agrees with the order in which the code writes each dict
DumpOrder ==
    << [key |-> "endpoint_info", text |-> <<"e", "n", "d", "p", "o", "i", "n", "t", "_", "i", "n", "f", "o">>],
       [key |-> "api_response", text |-> <<"a", "p", "i", "_", "r", "e", "s", "p", "o", "n", "s", "e">>],
       [key |-> "endpoint", text |-> <<"e", "n", "d", "p", "o", "i", "n", "t">>],
       [key |-> "params", text |-> <<"p", "a", "r", "a", "m", "s">>],
       [key |-> "filters", text |-> <<"f", "i", "l", "t", "e", "r", "s">>],
       [key |-> "explanation", text |-> <<"e", "x", "p", "l", "a", "n", "a", "t", "i", "o", "n">>],
       [key |-> "id", text |-> <<"i", "d">>],
       [key |-> "matches", text |-> <<"m", "a", "t", "c", "h", "e", "s">>],
       [key |-> "count", text |-> <<"c", "o", "u", "n", "t">>],
       [key |-> "error", text |-> <<"e", "r", "r", "o", "r">>],
       [key |-> "date_context", text |-> <<"d", "a", "t", "e", "_", "c", "o", "n", "t", "e", "x", "t">>],
       [key |-> "competition", text |-> <<"c", "o", "m", "p", "e", "t", "i", "t", "i", "o", "n">>],
       [key |-> "homeTeam", text |-> <<"h", "o", "m", "e", "T", "e", "a", "m">>],
       [key |-> "awayTeam", text |-> <<"a", "w", "a", "y", "T", "e", "a", "m">>],
       [key |-> "status", text |-> <<"s", "t", "a", "t", "u", "s">>],
       [key |-> "date", text |-> <<"d", "a", "t", "e">>],
       [key |-> "score", text |-> <<"s", "c", "o", "r", "e">>],
       [key |-> "dateFrom", text |-> <<"d", "a", "t", "e", "F", "r", "o", "m">>],
       [key |-> "dateTo", text |-> <<"d", "a", "t", "e", "T", "o">>],
       [key |-> "season", text |-> <<"s", "e", "a", "s", "o", "n">>],
       [key |-> "limit", text |-> <<"l", "i", "m", "i", "t">>],
       [key |-> "matchday", text |-> <<"m", "a", "t", "c", "h", "d", "a", "y">>],
       [key |-> "message", text |-> <<"m", "e", "s", "s", "a", "g", "e">>],
       [key |-> "resultSet", text |-> <<"r", "e", "s", "u", "l", "t", "S", "e", "t">>],
       [key |-> "name", text |-> <<"n", "a", "m", "e">>],
       [key |-> "shortName", text |-> <<"s", "h", "o", "r", "t", "N", "a", "m", "e">>],
       [key |-> "utcDate", text |-> <<"u", "t", "c", "D", "a", "t", "e">>],
       [key |-> "fullTime", text |-> <<"f", "u", "l", "l", "T", "i", "m", "e">>],
       [key |-> "home", text |-> <<"h", "o", "m", "e">>],
       [key |-> "away", text |-> <<"a", "w", "a", "y">>] >>

\* the key of keys that json.dumps writes first
DumpKey(keys) ==
    IF \E i \in 1..Len(DumpOrder) : DumpOrder[i].key \in keys
    THEN DumpOrder[CHOOSE i \in 1..Len(DumpOrder) :
                       /\ DumpOrder[i].key \in keys
                       /\ \A j \in 1..(i - 1) : DumpOrder[j].key \notin keys].key
    ELSE CHOOSE k \in keys : TRUE

\* the text of a key
DumpKeyText(key) ==
    IF \E i \in 1..Len(DumpOrder) : DumpOrder[i].key = key
    THEN DumpOrder[CHOOSE i \in 1..Len(DumpOrder) : DumpOrder[i].key = key].text
    ELSE <<"?">>

\* no character of the text is written with a backslash by json.dumps
EscapeFree(text) ==
    \A i \in 1..Len(text) : text[i] \notin {"\"", "\\", "\n", "\t", "\r"}

\* the text with the backslashes json.dumps writes
RECURSIVE EscapeText(_)
EscapeText(text) ==
    IF text = <<>> THEN <<>>
    ELSE (IF Head(text) = "\"" THEN <<"\\", "\"">>
          ELSE IF Head(text) = "\\" THEN <<"\\", "\\">>
          ELSE IF Head(text) = "\n" THEN <<"\\", "n">>
          ELSE IF Head(text) = "\t" THEN <<"\\", "t">>
          ELSE IF Head(text) = "\r" THEN <<"\\", "r">>
          ELSE <<Head(text)>>)
         \o EscapeText(Tail(text))

\* json.dumps of a text
DumpText(text) ==
    <<"\"">> \o (IF EscapeFree(text) THEN text ELSE EscapeText(text)) \o <<"\"">>

\* json.dumps(v, ensure_ascii=False) of a value without a negative number;
\* DumpItems writes the items of a list from the i-th on, DumpMembers the
\* members of a dict under keys and DumpMember the member under key first
RECURSIVE json_dumps(_)
RECURSIVE DumpItems(_, _)
RECURSIVE DumpMembers(_, _)
RECURSIVE DumpMember(_, _, _)
json_dumps(v) ==
    IF v.t = "null" THEN <<"n", "u", "l", "l">>
    ELSE IF v.t = "bool"
    THEN IF v.b THEN <<"t", "r", "u", "e">> ELSE <<"f", "a", "l", "s", "e">>
    ELSE IF v.t = "int" THEN DecStr(v.n)
    ELSE IF v.t = "str" THEN DumpText(v.s)
    ELSE IF v.t = "list" THEN <<"[">> \o DumpItems(v.items, 1) \o <<"]">>
    ELSE <<"{">> \o DumpMembers(v.d, DOMAIN v.d) \o <<"}">>

DumpItems(items, i) ==
    IF i > Len(items) THEN <<>>
    ELSE json_dumps(items[i])
         \o (IF i < Len(items) THEN <<",", " ">> ELSE <<>>)
         \o DumpItems(items, i + 1)

DumpMembers(d, keys) ==
    IF keys = {} THEN <<>> ELSE DumpMember(d, keys, DumpKey(keys))

DumpMember(d, keys, key) ==
    DumpText(DumpKeyText(key)) \o <<":", " ">> \o json_dumps(d[key])
    \o (IF keys # {key} THEN <<",", " ">> ELSE <<>>)
    \o DumpMembers(d, keys \ {key})

\* data_str: the text cut at the limit, with "..." after the cut
Truncated(text) ==
    IF Len(text) > PayloadLimit
    THEN SubSeq(text, 1, PayloadLimit) \o <<".", ".", ".">>
    ELSE text

\* the payload text the prompt holds: data_str in the mode "date_matches",
\* json.dumps(api_response) in the mode "api_response"
EmbeddedPayload(data, data_type) ==
    IF data_type = "date_matches" THEN Truncated(json_dumps(data))
    ELSE json_dumps(data.d["api_response"])

\* whether the narrator gets as far as sending its prompt: in the mode
\* "api_response" the prompt reads endpoint_info.get, which raises on an
\* endpoint_info that is no dict
NarratorSends(data, data_type) ==
    IF data_type = "date_matches" THEN TRUE
    ELSE data.d["endpoint_info"].t = "dict"

\* the payload text of the prompt that is sent, the empty text when the
\* narrator fails before it sends one
PromptPayload(data, data_type) ==
    IF NarratorSends(data, data_type) THEN EmbeddedPayload(data, data_type) ELSE <<>>

\* what format_response_with_gemini returns: the text of the model, or
\* the apology of its except clause
format_response_with_gemini(data, data_type, answered) ==
    IF NarratorSends(data, data_type) /\ answered
    THEN [kind |-> "narration"]
    ELSE [kind |-> "apology"]

(***************************************************************************)
(* Orchestrator: chatbot_response                                          *)
(***************************************************************************)

\* HasDate that takes a relative date for none
HasSpecificDate(info) ==
    info.date_type = "specific"

\* whether handle_date_based_query goes on to fetch: it returns None on a
\* query without a date
HasDate(info) ==
    info.date_str # NoneStr

\* NoEndpoint as the test  if endpoint_info is None
NoEndpointIsNone(info) ==
    info = JNull

\* the test  if not endpoint_info
NoEndpoint(info) ==
    ~Truthy(info)

ClarificationMessage ==
    [kind |-> "clarification"]

(***************************************************************************)
(* Values shared by the specifications                                     *)
(***************************************************************************)

\* a variable the running specification has not assigned yet
Unset ==
    [t |-> "unset"]

\* the longest query is a concatenation of this many segments
MaxSegments ==
    3

\* the pieces the modelled queries are built from: the relative keywords in
\* several letter cases, a lone digit, and date-shaped texts of each
\* pattern, with valid and with invalid calendar values
Segments ==
    << <<"T", "o", "d", "a", "y">>,
       <<"Y", "E", "S", "T", "E", "R", "D", "A", "Y">>,
       <<"t", "o", "m", "o", "r", "r", "o", "w">>,
       <<"1">>,
       <<"2", "0", "2", "4", "-", "0", "2", "-", "2", "9">>,
       <<"2", "0", "2", "3", "-", "1", "3", "-", "4", "5">>,
       <<"3", "1", "-", "1", "2", "-", "2", "0", "2", "3">>,
       <<"3", "1", "-", "0", "2", "-", "2", "0", "2", "3">>,
       <<"2", "9", "/", "0", "2", "/", "2", "0", "2", "3">>,
       <<"0", "4", "/", "0", "3", "/", "2", "0", "2", "5">>,
       <<"0", "4", "/", "0", "3", "/", "2", "5">>,
       <<"3", "1", "/", "0", "4", "/", "2", "4">> >>

\* the texts made of n segments
RECURSIVE TextsOf(_)
TextsOf(n) ==
    IF n = 0 THEN {<<>>}
    ELSE {Segments[i] \o t : i \in 1..Len(Segments), t \in TextsOf(n - 1)}

DateQueries ==
    UNION {TextsOf(n) : n \in 1..MaxSegments}

\* the days on which the query is asked: a leap day, the last day of a
\* year, the first day of a month after a short February
Nows ==
    { [y |-> 2024, m |-> 2, d |-> 29],
      [y |-> 2024, m |-> 12, d |-> 31],
      [y |-> 2025, m |-> 3, d |-> 1] }

(***************************************************************************)
(* SpecDate: parse_date_from_query applied to every modelled query         *)
(***************************************************************************)

InitDate ==
    /\ pc = "date_query"
    /\ query \in DateQueries
    /\ now \in Nows
    /\ date_info = Unset
    /\ matches_data = Unset
    /\ formatted = Unset
    /\ llm_reply = Unset
    /\ endpoint_info = Unset
    /\ provider_outcome = Unset
    /\ api_response = Unset
    /\ result = Unset
    /\ fetches = <<>>
    /\ narrations = <<>>
    /\ resolver_calls = 0
    /\ normalizer_calls = 0
    /\ gets = <<>>

ExtractDate ==
    /\ pc = "date_query"
    /\ date_info' = parse_date_from_query(query, now)
    /\ pc' = "date_parsed"
    /\ UNCHANGED <<query, now, matches_data, formatted, llm_reply,
                   endpoint_info, provider_outcome, api_response, result,
                   fetches, narrations, resolver_calls, normalizer_calls, gets>>

NextDate ==
    ExtractDate

SpecDate ==
    InitDate /\ [][NextDate]_vars

(***************************************************************************)
(* SpecFormat: format_matches_data applied to every modelled body          *)
(***************************************************************************)

\* the longest modelled list of matches
MaxMatches ==
    2

\* a match record with every key the formatter reads except score
BaseMatch(home) ==
    [competition |-> JDict([name |-> JStr(<<"P", "L">>)]),
     homeTeam |-> JDict([shortName |-> JStr(home)]),
     awayTeam |-> JDict([shortName |-> JStr(<<"C", "H", "E">>)]),
     status |-> JStr(<<"T", "I", "M", "E", "D">>),
     utcDate |-> JStr(<<"2", "0", "2", "4", "-", "0", "2", "-", "2", "9">>)]

FullTime(home, away) ==
    JDict([fullTime |-> JDict([home |-> home, away |-> away])])

\* the score values of the modelled records: played, not played, one side
\* null, and scores with a part missing
ScoreValues ==
    { FullTime(JInt(2), JInt(1)), FullTime(JInt(0), JInt(0)), FullTime(JInt(10), JInt(2)),
      FullTime(JNull, JNull), FullTime(JInt(2), JNull), FullTime(JNull, JInt(1)),
      JDict([fullTime |-> JDict([home |-> JInt(2)])]),
      JDict([fullTime |-> JDict([away |-> JInt(1)])]),
      JDict([fullTime |-> JDict(EmptyMap)]),
      JDict(EmptyMap),
      JNull }

RequiredKeys ==
    {"competition", "homeTeam", "awayTeam", "status", "utcDate"}

\* the modelled match records: without score, with each score value, with
\* a required key missing, and with a team or competition lacking its name
MatchRecords ==
    {JDict(BaseMatch(<<"A", "R", "S">>)), JDict(BaseMatch(<<"L", "I", "V">>))}
    \cup {JDict(WithKey(BaseMatch(<<"A", "R", "S">>), "score", sv)) : sv \in ScoreValues}
    \cup {JDict(WithoutKey(
              WithKey(BaseMatch(<<"A", "R", "S">>), "score", FullTime(JInt(2), JInt(1))), k))
          : k \in RequiredKeys}
    \cup {JDict(WithKey(BaseMatch(<<"A", "R", "S">>), "competition", JDict(EmptyMap))),
          JDict(WithKey(BaseMatch(<<"A", "R", "S">>), "awayTeam", JDict(EmptyMap)))}

\* the lists of n modelled records
RECURSIVE MatchLists(_)
MatchLists(n) ==
    IF n = 0 THEN {<<>>}
    ELSE {<<r>> \o l : r \in MatchRecords, l \in MatchLists(n - 1)}

AllMatchLists ==
    UNION {MatchLists(n) : n \in 0..MaxMatches}

\* the modelled bodies: None, {}, a body without matches, and bodies with a
\* list of matches, alone, beside an error key and beside another key
FormatInputs ==
    {JNull, JDict(EmptyMap),
     JDict([resultSet |-> JInt(0)]),
     JDict([error |-> JStr(<<"x">>)]),
     JDict([matches |-> JNull])}
    \cup {JDict([matches |-> JList(l)]) : l \in AllMatchLists}
    \cup {JDict([matches |-> JList(l), error |-> JStr(<<"x">>)]) : l \in AllMatchLists}
    \cup {JDict([matches |-> JList(l), resultSet |-> JInt(Len(l))]) : l \in AllMatchLists}

InitFormat ==
    /\ pc = "format_input"
    /\ matches_data \in FormatInputs
    /\ query = <<>>
    /\ now = Unset
    /\ date_info = Unset
    /\ formatted = Unset
    /\ llm_reply = Unset
    /\ endpoint_info = Unset
    /\ provider_outcome = Unset
    /\ api_response = Unset
    /\ result = Unset
    /\ fetches = <<>>
    /\ narrations = <<>>
    /\ resolver_calls = 0
    /\ normalizer_calls = 0
    /\ gets = <<>>

FormatMatches ==
    /\ pc = "format_input"
    /\ formatted' = format_matches_data(matches_data)
    /\ pc' = "formatted"
    /\ UNCHANGED <<query, now, date_info, matches_data, llm_reply,
                   endpoint_info, provider_outcome, api_response, result,
                   fetches, narrations, resolver_calls, normalizer_calls, gets>>

NextFormat ==
    FormatMatches

SpecFormat ==
    InitFormat /\ [][NextFormat]_vars

(***************************************************************************)
(* SpecNorm: make_football_api_call applied to every modelled call         *)
(***************************************************************************)

\* the values under "endpoint"; Unset stands for a call without the key
EndpointValues ==
    {Unset, JNull, JInt(7),
     JStr(<<"/", "c", "o", "m", "p", "e", "t", "i", "t", "i", "o", "n", "s", "/", "{", "i", "d", "}", "/", "s", "t", "a", "n", "d", "i", "n", "g", "s">>),
     JStr(<<"/", "t", "e", "a", "m", "s", "/", "{", "i", "d", "}", "/", "m", "a", "t", "c", "h", "e", "s">>),
     JStr(<<"/", "m", "a", "t", "c", "h", "e", "s">>)}

\* the values under "params"
ParamValues ==
    {Unset, JNull, JDict(EmptyMap), JList(<<JStr(<<"P", "L">>)>>),
     JDict([id |-> JStr(<<"P", "L">>)]),
     JDict([id |-> JStr(<<"p", "l">>)]),
     JDict([id |-> JStr(<<"P", "r", "e", "m", "i", "e", "r", " ", "L", "e", "a", "g", "u", "e">>)]),
     JDict([id |-> JStr(<<"l", "a", " ", "l", "i", "g", "a">>)]),
     JDict([id |-> JStr(<<"p", "r", "e", "m", "i", "e", "r", " ", "l", "e", "a", "g", "u", "e">>)]),
     JDict([id |-> JStr(<<"x", "y", "z">>)]),
     JDict([id |-> JStr(<<"2", "0", "2", "1">>)]),
     JDict([id |-> JInt(57)]),
     JDict([id |-> JNull]),
     JDict([id |-> JList(<<>>)]),
     JDict([id |-> JStr(<<"S", "A">>), season |-> JInt(2023)])}

\* the values under "filters"
FilterValues ==
    {Unset, JNull, JDict(EmptyMap), JStr(<<"l", "i", "v", "e">>),
     JDict([date |-> JStr(<<"2", "0", "2", "5", "-", "0", "3", "-", "0", "4">>)]),
     JDict([date |-> JStr(<<"0", "4", "-", "0", "3", "-", "2", "0", "2", "5">>)]),
     JDict([date |-> JStr(<<"0", "4", "/", "0", "3", "/", "2", "0", "2", "5">>)]),
     JDict([date |-> JStr(<<"0", "3", "/", "2", "5", "/", "2", "0", "2", "5">>)]),
     JDict([date |-> JStr(<<"4", "/", "3", "/", "2", "0", "2", "5">>)]),
     JDict([date |-> JStr(<<"n", "e", "x", "t", " ", "w", "e", "e", "k">>)]),
     JDict([date |-> JStr(<<"3", "1", "/", "0", "2", "/", "2", "0", "2", "5">>)]),
     JDict([date |-> JInt(20250304)]),
     JDict([date |-> JNull]),
     JDict([dateFrom |-> JStr(<<"0", "1", "/", "0", "2", "/", "2", "0", "2", "5">>), dateTo |-> JStr(<<"2", "0", "2", "5", "-", "0", "2", "-", "2", "8">>)]),
     JDict([status |-> JStr(<<"f", "i", "n", "i", "s", "h", "e", "d">>)]),
     JDict([status |-> JStr(<<"I", "n", " ", "P", "l", "a", "y">>)]),
     JDict([status |-> JStr(<<"F", "I", "N", "I", "S", "H", "E", "D">>)]),
     JDict([status |-> JStr(<<"d", "o", "n", "e">>)]),
     JDict([status |-> JNull]),
     JDict([status |-> JInt(1)]),
     JDict([season |-> JInt(2023)]),
     JDict([season |-> JStr(<<"2", "0", "2", "3">>), status |-> JStr(<<"l", "i", "v", "e">>)]),
     JDict([limit |-> JNull, date |-> JStr(<<"0", "4", "/", "0", "3", "/", "2", "0", "2", "5">>)])}

\* f with the key k when v is a value, f when v is Unset
WithOptional(f, k, v) ==
    IF v = Unset THEN f ELSE WithKey(f, k, v)

\* the calls handed to the normalizer: the dicts of the values above and
\* values that are no dict
NormInputs ==
    {JDict(WithOptional(WithOptional(WithOptional(EmptyMap, "endpoint", e), "params", p), "filters", f)) :
         e \in EndpointValues, p \in ParamValues, f \in FilterValues}
    \cup {JNull, JInt(42), JBool(TRUE), JStr(<<"x">>), JList(<<JInt(1)>>)}

\* the bodies the data provider answers a dispatched call with
ApiBodies ==
    {JDict([matches |-> JList(<<>>)]),
     JDict([id |-> JInt(2021), season |-> JStr(<<"2", "0", "2", "3">>)]),
     JList(<<>>)}

\* what requests.get does: answers 200 with a JSON body, answers 200 with
\* a body that is no JSON, answers an error status, raises
ApiOutcomes ==
    {[kind |-> "ok", status |-> 200, body |-> b] : b \in ApiBodies}
    \cup {[kind |-> "status", status |-> c, body |-> JNull] : c \in {404, 429, 500}}
    \cup {[kind |-> "bad_body", status |-> 200, body |-> JNull],
          [kind |-> "exception", status |-> 0, body |-> JNull]}

InitNorm ==
    /\ pc = "normalize"
    /\ endpoint_info \in NormInputs
    /\ query = <<>>
    /\ now = Unset
    /\ date_info = Unset
    /\ matches_data = Unset
    /\ formatted = Unset
    /\ llm_reply = Unset
    /\ provider_outcome = Unset
    /\ api_response = Unset
    /\ result = Unset
    /\ fetches = <<>>
    /\ narrations = <<>>
    /\ resolver_calls = 0
    /\ normalizer_calls = 0
    /\ gets = <<>>

\* the request is issued, or the exception raised before it is returned
\* as an error payload
Dispatch(request) ==
    IF IsRaised(request)
    THEN /\ api_response' = ErrorPayload(request.kind)
         /\ gets' = gets
         /\ pc' = "narrate"
    ELSE /\ api_response' = api_response
         /\ gets' = Append(gets, request)
         /\ pc' = "get"

\* make_football_api_call up to requests.get
CallApi ==
    /\ pc = "normalize"
    /\ normalizer_calls' = normalizer_calls + 1
    /\ Dispatch(BuildRequest(endpoint_info))
    /\ UNCHANGED <<query, now, date_info, matches_data, formatted, llm_reply,
                   endpoint_info, provider_outcome, result, fetches,
                   narrations, resolver_calls>>

\* make_football_api_call from the answer of requests.get on
ApiAnswers ==
    /\ pc = "get"
    /\ \E outcome \in ApiOutcomes :
           /\ provider_outcome' = outcome
           /\ api_response' = ApiResult(outcome)
    /\ pc' = "narrate"
    /\ UNCHANGED <<query, now, date_info, matches_data, formatted, llm_reply,
                   endpoint_info, result, fetches, narrations, resolver_calls,
                   normalizer_calls, gets>>

NextNorm ==
    \/ CallApi
    \/ ApiAnswers

SpecNorm ==
    InitNorm /\ [][NextNorm]_vars

(***************************************************************************)
(* Spec: chatbot_response applied to every modelled query                  *)
(***************************************************************************)

Queries ==
    {<<"m", "a", "t", "c", "h", "e", "s", " ", "t", "o", "d", "a", "y">>,
     <<"A", "r", "s", "e", "n", "a", "l", " ", "o", "n", " ", "2", "0", "2", "4", "-", "0", "2", "-", "2", "9">>,
     <<"L", "i", "v", "e", "r", "p", "o", "o", "l", " ", "Y", "E", "S", "T", "E", "R", "D", "A", "Y", " ", "o", "r", " ", "3", "1", "-", "1", "2", "-", "2", "0", "2", "3">>,
     <<"P", "L", " ", "s", "t", "a", "n", "d", "i", "n", "g", "s", " ", "f", "o", "r", " ", "2", "0", "2", "3", " ", "s", "e", "a", "s", "o", "n">>,
     <<"t", "o", "p", " ", "s", "c", "o", "r", "e", "r", "s", " ", "2", "0", "2", "3", "-", "1", "3", "-", "4", "5">>,
     <<"w", "h", "o", " ", "w", "o", "n", " ", "3", "1", "/", "0", "2", "/", "2", "0", "2", "3">>}

\* the number of parts of a text of the model
MaxTextParts ==
    2

\* the parts of the texts the model answers the resolver with: JSON
\* objects and other JSON values, fences, prose, an object cut short
TextParts ==
    <<<<"{", "\"", "e", "n", "d", "p", "o", "i", "n", "t", "\"", ":", " ", "\"", "/", "c", "o", "m", "p", "e", "t", "i", "t", "i", "o", "n", "s", "/", "{", "i", "d", "}", "/", "s", "t", "a", "n", "d", "i", "n", "g", "s", "\"", ",", " ", "\"", "p", "a", "r", "a", "m", "s", "\"", ":", " ", "{", "\"", "i", "d", "\"", ":", " ", "\"", "P", "r", "e", "m", "i", "e", "r", " ", "L", "e", "a", "g", "u", "e", "\"", "}", ",", " ", "\"", "f", "i", "l", "t", "e", "r", "s", "\"", ":", " ", "{", "\"", "s", "e", "a", "s", "o", "n", "\"", ":", " ", "\"", "2", "0", "2", "3", "\"", "}", "}">>,
      <<"{", "\"", "e", "n", "d", "p", "o", "i", "n", "t", "\"", ":", " ", "\"", "/", "m", "a", "t", "c", "h", "e", "s", "\"", ",", " ", "\"", "f", "i", "l", "t", "e", "r", "s", "\"", ":", " ", "{", "\"", "s", "t", "a", "t", "u", "s", "\"", ":", " ", "\"", "l", "i", "v", "e", "\"", "}", "}">>,
      <<"{", "\"", "p", "a", "r", "a", "m", "s", "\"", ":", " ", "{", "\"", "i", "d", "\"", ":", " ", "\"", "P", "L", "\"", "}", "}">>,
      <<"{", "}">>,
      <<"4", "2">>,
      <<"n", "u", "l", "l">>,
      <<"[", "]">>,
      <<Backtick, Backtick, Backtick, "j", "s", "o", "n", "\n">>,
      <<"\n", Backtick, Backtick, Backtick>>,
      <<"S", "u", "r", "e", ":", " ">>,
      <<" ", "u", "s", "e", " ", "{", "i", "d", "}">>,
      <<"{", "\"", "e", "n", "d", "p", "o", "i", "n", "t", "\"", ":", " ">>>>

RECURSIVE ModelTextsOf(_)
ModelTextsOf(n) ==
    IF n = 0 THEN {<<>>}
    ELSE {TextParts[i] \o t : i \in 1..Len(TextParts), t \in ModelTextsOf(n - 1)}

ModelTexts ==
    UNION {ModelTextsOf(n) : n \in 1..MaxTextParts}

\* what the request of the resolver to the model does: raises, answers an
\* error status, answers without candidates, answers with a text
LlmReplies ==
    {[kind |-> k, text |-> <<>>] : k \in {"exception", "status", "no_candidates"}}
    \cup {[kind |-> "text", text |-> t] : t \in ModelTexts}

\* the bodies the data provider answers a fetch by date with
DateBodies ==
    {JNull, JInt(0), JInt(1), JList(<<>>), JDict(EmptyMap),
     JDict([message |-> JStr(<<"x">>)]),
     JDict([matches |-> JList(<<>>)]),
     JDict([matches |-> JNull])}
    \cup {JDict([matches |-> JList(l)]) : l \in AllMatchLists}

DateOutcomes ==
    {[kind |-> "ok", status |-> 200, body |-> b] : b \in DateBodies}
    \cup {[kind |-> "status", status |-> c, body |-> JNull] : c \in {404, 429, 500}}
    \cup {[kind |-> "bad_body", status |-> 200, body |-> JNull],
          [kind |-> "exception", status |-> 0, body |-> JNull]}

Init ==
    /\ pc = "start"
    /\ query \in Queries
    /\ now \in Nows
    /\ date_info = Unset
    /\ matches_data = Unset
    /\ formatted = Unset
    /\ llm_reply = Unset
    /\ endpoint_info = Unset
    /\ provider_outcome = Unset
    /\ api_response = Unset
    /\ result = Unset
    /\ fetches = <<>>
    /\ narrations = <<>>
    /\ resolver_calls = 0
    /\ normalizer_calls = 0
    /\ gets = <<>>

\* handle_date_based_query up to its test of date_str
ParseQuery ==
    /\ pc = "start"
    /\ date_info' = parse_date_from_query(query, now)
    /\ pc' = IF HasDate(date_info') THEN "date_fetch" ELSE "resolve"
    /\ UNCHANGED <<query, now, matches_data, formatted, llm_reply,
                   endpoint_info, provider_outcome, api_response, result,
                   fetches, narrations, resolver_calls, normalizer_calls, gets>>

\* the rest of handle_date_based_query: the fetch by date, the formatting
\* and the date_context; an exception leaves chatbot_response
FetchByDate ==
    /\ pc = "date_fetch"
    /\ fetches' = Append(fetches, date_info.date_str)
    /\ \E outcome \in DateOutcomes :
           /\ provider_outcome' = outcome
           /\ matches_data' = get_matches_by_date(outcome)
           /\ formatted' = handle_date_based_query(query, date_info, outcome)
    /\ IF IsRaised(formatted')
       THEN pc' = "aborted" /\ result' = formatted'
       ELSE pc' = "date_narrate" /\ result' = result
    /\ UNCHANGED <<query, now, date_info, llm_reply, endpoint_info,
                   api_response, narrations, resolver_calls,
                   normalizer_calls, gets>>

\* the test of date_matches and the narration of the matches of the date
NarrateDate ==
    /\ pc = "date_narrate"
    /\ IF Truthy(formatted)
       THEN /\ narrations' = Append(narrations,
                                 [mode |-> "date_matches", payload |-> formatted,
                                  sent |-> NarratorSends(formatted, "date_matches"),
                                  embedded |-> PromptPayload(formatted, "date_matches")])
            /\ \E answered \in BOOLEAN :
                   result' = format_response_with_gemini(formatted, "date_matches", answered)
            /\ pc' = "done"
       ELSE /\ narrations' = narrations
            /\ result' = result
            /\ pc' = "resolve"
    /\ UNCHANGED <<query, now, date_info, matches_data, formatted, llm_reply,
                   endpoint_info, provider_outcome, api_response, fetches,
                   resolver_calls, normalizer_calls, gets>>

\* ask_gemini_for_endpoint and the test of its result
Resolve ==
    /\ pc = "resolve"
    /\ resolver_calls' = resolver_calls + 1
    /\ \E reply \in LlmReplies :
           /\ llm_reply' = reply
           /\ endpoint_info' = ask_gemini_for_endpoint(reply)
    /\ IF NoEndpoint(endpoint_info')
       THEN pc' = "done" /\ result' = ClarificationMessage
       ELSE pc' = "normalize" /\ result' = result
    /\ UNCHANGED <<query, now, date_info, matches_data, formatted,
                   provider_outcome, api_response, fetches, narrations,
                   normalizer_calls, gets>>

\* the narration of the call and of its answer
NarrateApi ==
    /\ pc = "narrate"
    /\ LET data == JDict([endpoint_info |-> endpoint_info, api_response |-> api_response])
       IN  /\ narrations' = Append(narrations,
                                [mode |-> "api_response", payload |-> data,
                                 sent |-> NarratorSends(data, "api_response"),
                                 embedded |-> PromptPayload(data, "api_response")])
           /\ \E answered \in BOOLEAN :
                  result' = format_response_with_gemini(data, "api_response", answered)
    /\ pc' = "done"
    /\ UNCHANGED <<query, now, date_info, matches_data, formatted, llm_reply,
                   endpoint_info, provider_outcome, api_response, fetches,
                   resolver_calls, normalizer_calls, gets>>

Next ==
    \/ ParseQuery
    \/ FetchByDate
    \/ NarrateDate
    \/ Resolve
    \/ CallApi
    \/ ApiAnswers
    \/ NarrateApi

Spec ==
    Init /\ [][Next]_vars

(***************************************************************************)
(* SpecNarrate: format_response_with_gemini applied to payloads whose      *)
(* text is about as long as the limit                                      *)
(***************************************************************************)

\* how far below the limit the lengths of the long texts start
BulkSlack ==
    200

\* the lengths of the texts that fill a payload
BulkLengths ==
    {0} \cup ((PayloadLimit - BulkSlack)..(PayloadLimit + 2))

\* a text of n characters
Bulk(n) ==
    [i \in 1..n |-> "a"]

\* the summary of a match of the competition name
SummaryNamed(name) ==
    JDict([competition |-> JStr(name),
           homeTeam |-> JStr(<<"A">>),
           awayTeam |-> JStr(<<"B">>),
           status |-> JStr(<<"T", "I", "M", "E", "D">>),
           date |-> JStr(<<"2", "0", "2", "4", "-", "0", "2", "-", "2", "9", "T", "2", "0", ":", "0", "0", ":", "0", "0", "Z">>),
           score |-> JStr(<<"N", "o", "t", " ", "p", "l", "a", "y", "e", "d", " ", "y", "e", "t">>)])

\* what the date path hands to the narrator
DatePayloads ==
    {JDict([matches |-> JList(<<SummaryNamed(Bulk(n))>>),
            count |-> JInt(1),
            date_context |-> JStr(<<"t", "o", "d", "a", "y">>)]) : n \in BulkLengths}
    \cup {JDict([error |-> JStr(<<"A", "P", "I", " ", "E", "r", "r", "o", "r", ":", " ", "4", "0", "4">>),
                 date_context |-> JStr(<<"t", "o", "d", "a", "y">>)])}

\* what the resolver and the normalizer hand to the narrator
ApiPayloads ==
    {[endpoint_info |-> e, api_response |-> r] :
         e \in {JDict([endpoint |-> JStr(<<"/", "m", "a", "t", "c", "h", "e", "s">>)]), JInt(42)},
         r \in {JDict([message |-> JStr(Bulk(n))]) : n \in BulkLengths}
               \cup {ErrorPayload("HTTPError")}}

\* the states in which chatbot_response calls the narrator
NarrateInputs ==
    {[pc |-> "date_narrate", formatted |-> f, endpoint_info |-> Unset, api_response |-> Unset] :
         f \in DatePayloads}
    \cup {[pc |-> "narrate", formatted |-> Unset, endpoint_info |-> a.endpoint_info,
           api_response |-> a.api_response] : a \in ApiPayloads}

InitNarrate ==
    /\ \E input \in NarrateInputs :
           /\ pc = input.pc
           /\ formatted = input.formatted
           /\ endpoint_info = input.endpoint_info
           /\ api_response = input.api_response
    /\ query = <<"m", "a", "t", "c", "h", "e", "s", " ", "t", "o", "d", "a", "y">>
    /\ now = Unset
    /\ date_info = Unset
    /\ matches_data = Unset
    /\ llm_reply = Unset
    /\ provider_outcome = Unset
    /\ result = Unset
    /\ fetches = <<>>
    /\ narrations = <<>>
    /\ resolver_calls = 0
    /\ normalizer_calls = 0
    /\ gets = <<>>

NextNarrate ==
    \/ NarrateDate
    \/ NarrateApi

SpecNarrate ==
    InitNarrate /\ [][NextNarrate]_vars

(***************************************************************************)
(* Definitions the properties are stated with                              *)
(***************************************************************************)

\* the text occurs in q in some letter case
HasWord(q, word) ==
    \E i \in 1..Len(q) :
        /\ i + Len(word) - 1 <= Len(q)
        /\ \A k \in 1..Len(word) : LowerChar(q[i + k - 1]) = word[k]

WordYesterday ==
    <<"y", "e", "s", "t", "e", "r", "d", "a", "y">>

WordToday ==
    <<"t", "o", "d", "a", "y">>

WordTomorrow ==
    <<"t", "o", "m", "o", "r", "r", "o", "w">>

HasRelativeWord(q) ==
    HasWord(q, WordYesterday) \/ HasWord(q, WordToday) \/ HasWord(q, WordTomorrow)

\* the offset the scan order yesterday, today, tomorrow gives the query
ExpectedOffset(q) ==
    IF HasWord(q, WordYesterday) THEN -1
    ELSE IF HasWord(q, WordToday) THEN 0
    ELSE 1

\* the number of the day in the proleptic Gregorian calendar
DayNumber(dt) ==
    LET before == <<0, 31, 59, 90, 120, 151, 181, 212, 243, 273, 304, 334>>
        yy == IF dt.m <= 2 THEN dt.y - 1 ELSE dt.y
    IN  365 * dt.y + (yy \div 4) - (yy \div 100) + (yy \div 400) + before[dt.m] + dt.d

\* the text has the shape YYYY-MM-DD
IsIsoText(s) ==
    /\ Len(s) = 10
    /\ s[5] = "-" /\ s[8] = "-"
    /\ \A i \in {1, 2, 3, 4, 6, 7, 9, 10} : IsDigit(s[i])

\* the date an ISO text denotes
IsoDate(s) ==
    [y |-> NumAt(s, 1, 4), m |-> NumAt(s, 6, 2), d |-> NumAt(s, 9, 2)]

\* the four shapes of an explicit date, in the order of the claim, with the
\* positions of the day, month and year digits in a text of that shape
Shapes ==
    << [re |-> <<"d", "d", "d", "d", "-", "d", "d", "-", "d", "d">>,
        dpos |-> 9, mpos |-> 6, ypos |-> 1, ylen |-> 4],
       [re |-> <<"d", "d", "-", "d", "d", "-", "d", "d", "d", "d">>,
        dpos |-> 1, mpos |-> 4, ypos |-> 7, ylen |-> 4],
       [re |-> <<"d", "d", "/", "d", "d", "/", "d", "d", "d", "d">>,
        dpos |-> 1, mpos |-> 4, ypos |-> 7, ylen |-> 4],
       [re |-> <<"d", "d", "/", "d", "d", "/", "d", "d">>,
        dpos |-> 1, mpos |-> 4, ypos |-> 7, ylen |-> 2] >>

\* q has the shape at position i
ShapeAt(q, shape, i) ==
    /\ i >= 1
    /\ i + Len(shape.re) - 1 <= Len(q)
    /\ \A k \in 1..Len(shape.re) :
          IF shape.re[k] = "d" THEN IsDigit(q[i + k - 1]) ELSE q[i + k - 1] = shape.re[k]

\* the date the text of that shape at position i denotes
ShapeDate(q, shape, i) ==
    LET yy == NumAt(q, i + shape.ypos - 1, shape.ylen)
    IN  [y |-> IF shape.ylen = 4 THEN yy ELSE IF yy < 69 THEN 2000 + yy ELSE 1900 + yy,
         m |-> NumAt(q, i + shape.mpos - 1, 2),
         d |-> NumAt(q, i + shape.dpos - 1, 2)]

\* a date of the calendar
IsCalendarDate(dt) ==
    /\ dt.y >= 1 /\ dt.y <= 9999
    /\ dt.m \in 1..12
    /\ dt.d >= 1
    /\ dt.d <= (IF dt.m = 2 THEN (IF (dt.y % 4 = 0 /\ dt.y % 100 # 0) \/ dt.y % 400 = 0
                                  THEN 29 ELSE 28)
                ELSE IF dt.m \in {4, 6, 9, 11} THEN 30 ELSE 31)

\* the leftmost position at which q has the shape, 0 when it has it nowhere
Leftmost(q, shape) ==
    IF \E i \in 1..Len(q) : ShapeAt(q, shape, i)
    THEN CHOOSE i \in 1..Len(q) :
             ShapeAt(q, shape, i) /\ \A j \in 1..(i - 1) : ~ShapeAt(q, shape, j)
    ELSE 0

\* the shape's leftmost occurrence in q exists and denotes a calendar date
ShapeParses(q, shape) ==
    /\ Leftmost(q, shape) # 0
    /\ IsCalendarDate(ShapeDate(q, shape, Leftmost(q, shape)))

\* the decimal digit of n at the place of 10^k
DigitOf(n, k) ==
    Digits[((n \div (10 ^ k)) % 10) + 1]

\* the text YYYY-MM-DD of a date
IsoText(dt) ==
    << DigitOf(dt.y, 3), DigitOf(dt.y, 2), DigitOf(dt.y, 1), DigitOf(dt.y, 0), "-",
       DigitOf(dt.m, 1), DigitOf(dt.m, 0), "-",
       DigitOf(dt.d, 1), DigitOf(dt.d, 0) >>

(***************************************************************************)
(* Properties of the date extractor (SpecDate)                             *)
(***************************************************************************)

\* C6: for every query containing "yesterday", "today" or "tomorrow" in any
\* letter case, the extractor returns the current date plus the offset of the
\* first keyword in the scan order yesterday, today, tomorrow, with kind
\* "relative", whatever explicit date the query also contains and wherever
\* the keywords stand.
C6_RelativeKeywordWins ==
    (pc = "date_parsed" /\ HasRelativeWord(query)) =>
        /\ date_info.date_type = "relative"
        /\ IsIsoText(date_info.date_str)
        /\ IsCalendarDate(IsoDate(date_info.date_str))
        /\ DayNumber(IsoDate(date_info.date_str)) = DayNumber(now) + ExpectedOffset(query)

\* a query in which "tomorrow" stands before "yesterday" and an explicit
\* valid date also occurs has been answered with yesterday's date
C6_Witness ==
    /\ pc = "date_parsed"
    /\ \E i, j \in 1..Len(query) :
          /\ i < j
          /\ OccursAt(Lower(query), WordTomorrow, i)
          /\ OccursAt(Lower(query), WordYesterday, j)
    /\ ShapeParses(query, Shapes[1])
    /\ query # Lower(query)
    /\ date_info.date_type = "relative"
    /\ DayNumber(IsoDate(date_info.date_str)) = DayNumber(now) - 1

\* C7 as stated: whenever the query contains a substring of the shape
\* YYYY-MM-DD with valid calendar values, the extractor returns that exact
\* date with kind "specific".
C7_AnyIsoSubstringReturned ==
    pc = "date_parsed" =>
        \A i \in 1..Len(query) :
            (ShapeAt(query, Shapes[1], i) /\ IsCalendarDate(ShapeDate(query, Shapes[1], i))) =>
                /\ date_info.date_type = "specific"
                /\ date_info.date_str = SubSeq(query, i, i + 9)

\* C7 amended: when the query contains no relative keyword (in any letter
\* case) and its leftmost substring of the shape YYYY-MM-DD has valid
\* calendar values, the extractor returns that exact date with kind
\* "specific".
C7_LeftmostIsoReturned ==
    (/\ pc = "date_parsed"
     /\ ~HasRelativeWord(query)
     /\ ShapeParses(query, Shapes[1])) =>
        /\ date_info.date_type = "specific"
        /\ date_info.date_str =
               SubSeq(query, Leftmost(query, Shapes[1]), Leftmost(query, Shapes[1]) + 9)

\* a query without keyword whose leftmost YYYY-MM-DD text is valid and
\* stands after a DD-MM-YYYY text has been answered
C7_Witness ==
    /\ pc = "date_parsed"
    /\ ~HasRelativeWord(query)
    /\ ShapeParses(query, Shapes[1])
    /\ ShapeParses(query, Shapes[2])
    /\ Leftmost(query, Shapes[2]) < Leftmost(query, Shapes[1])
    /\ date_info.date_type = "specific"

\* the first shape, in the order of the claim, whose leftmost occurrence in q
\* parses; 0 when none does
FirstParsingShape(q) ==
    IF \E p \in 1..Len(Shapes) : ShapeParses(q, Shapes[p])
    THEN CHOOSE p \in 1..Len(Shapes) :
             ShapeParses(q, Shapes[p]) /\ \A r \in 1..(p - 1) : ~ShapeParses(q, Shapes[r])
    ELSE 0

\* C8: for a query with no relative keyword the extractor returns the date
\* of the first pattern, in the order YYYY-MM-DD, DD-MM-YYYY, DD/MM/YYYY,
\* DD/MM/YY, whose match parses under its own format, normalized to
\* YYYY-MM-DD with kind "specific"; a pattern whose match does not parse is
\* skipped; when no pattern matches and parses the result is (None, None).
C8_FirstParsingPatternWins ==
    (pc = "date_parsed" /\ ~HasRelativeWord(query)) =>
        LET p == FirstParsingShape(query)
        IN  IF p = 0
            THEN date_info.date_str = NoneStr /\ date_info.date_type = "None"
            ELSE /\ date_info.date_type = "specific"
                 /\ date_info.date_str =
                        IsoText(ShapeDate(query, Shapes[p], Leftmost(query, Shapes[p])))

\* a query whose YYYY-MM-DD match does not parse has been answered with the
\* date of a later pattern, which is not the text that pattern matched
C8_Witness ==
    /\ pc = "date_parsed"
    /\ ~HasRelativeWord(query)
    /\ Leftmost(query, Shapes[1]) # 0
    /\ ~ShapeParses(query, Shapes[1])
    /\ FirstParsingShape(query) > 1
    /\ date_info.date_type = "specific"
    /\ ~Contains(query, date_info.date_str)

(***************************************************************************)
(* Properties of the match formatter (SpecFormat)                          *)
(***************************************************************************)

\* v is a dict with the key
HasKey(v, key) ==
    v.t = "dict" /\ key \in DOMAIN v.d

\* the raw record carries both full-time scores, neither of them null
BothScoresPresent(m) ==
    /\ HasKey(m, "score")
    /\ HasKey(m.d["score"], "fullTime")
    /\ HasKey(m.d["score"].d["fullTime"], "home")
    /\ HasKey(m.d["score"].d["fullTime"], "away")
    /\ m.d["score"].d["fullTime"].d["home"].t = "int"
    /\ m.d["score"].d["fullTime"].d["away"].t = "int"

\* the score the claim gives the raw record
ClaimedScore(m) ==
    IF BothScoresPresent(m)
    THEN DecStr(m.d["score"].d["fullTime"].d["home"].n) \o <<" ", "-", " ">>
         \o DecStr(m.d["score"].d["fullTime"].d["away"].n)
    ELSE <<"N", "o", "t", " ", "p", "l", "a", "y", "e", "d", " ", "y", "e", "t">>

\* the formatter returned {matches, count}
ReturnedSummaries ==
    /\ pc = "formatted"
    /\ formatted.t = "dict"
    /\ DOMAIN formatted.d = {"matches", "count"}

\* C9: for each raw match of a call that returns summaries, the summary's
\* score is "home - away" if both full-time scores are present and non-null,
\* and otherwise the text "Not played yet"; no score holds a None part.
C9_ScoreOrNotPlayed ==
    ReturnedSummaries =>
        \A i \in 1..Len(formatted.d["matches"].items) :
            /\ formatted.d["matches"].items[i].d["score"].s
                   = ClaimedScore(matches_data.d["matches"].items[i])
            /\ ~Contains(formatted.d["matches"].items[i].d["score"].s, <<"N", "o", "n", "e">>)

\* the input is absent or empty, has no matches key, or carries an error key
ErrorInput(data) ==
    \/ data.t = "null"
    \/ data.t = "dict" /\ DOMAIN data.d = {}
    \/ data.t = "dict" /\ "matches" \notin DOMAIN data.d
    \/ data.t = "dict" /\ "error" \in DOMAIN data.d

\* the raw record carries every key the formatter reads: the required keys
\* with their names and, when it has a score, the full-time home value and,
\* unless that is null, the full-time away value
CompleteRecord(m) ==
    /\ m.t = "dict"
    /\ HasKey(m, "competition") /\ HasKey(m.d["competition"], "name")
    /\ HasKey(m, "homeTeam") /\ HasKey(m.d["homeTeam"], "shortName")
    /\ HasKey(m, "awayTeam") /\ HasKey(m.d["awayTeam"], "shortName")
    /\ HasKey(m, "status")
    /\ HasKey(m, "utcDate")
    /\ HasKey(m, "score") =>
          /\ HasKey(m.d["score"], "fullTime")
          /\ HasKey(m.d["score"].d["fullTime"], "home")
          /\ (m.d["score"].d["fullTime"].d["home"].t # "null"
                 => HasKey(m.d["score"].d["fullTime"], "away"))

\* summary is the summary of the raw record, its score apart
SummaryOf(summary, m) ==
    /\ summary.t = "dict"
    /\ DOMAIN summary.d = {"competition", "homeTeam", "awayTeam", "status", "date", "score"}
    /\ summary.d["competition"] = m.d["competition"].d["name"]
    /\ summary.d["homeTeam"] = m.d["homeTeam"].d["shortName"]
    /\ summary.d["awayTeam"] = m.d["awayTeam"].d["shortName"]
    /\ summary.d["status"] = m.d["status"]
    /\ summary.d["date"] = m.d["utcDate"]
    /\ summary.d["score"].t = "str"

\* C10: the formatter returns exactly {error: "No matches found or error in
\* data"} when its input is absent or empty, has no matches key, or carries
\* an error key, even beside a matches list; otherwise, for a list of
\* records that carry the keys the formatter reads, it returns {matches,
\* count} with one summary per raw match in input order and count equal to
\* the number of raw matches, 0 for an empty list.
C10_ErrorOrSummaries ==
    pc = "formatted" =>
        /\ ErrorInput(matches_data) =>
              formatted = JDict([error |-> JStr(
                  <<"N", "o", " ", "m", "a", "t", "c", "h", "e", "s", " ", "f", "o", "u",
                    "n", "d", " ", "o", "r", " ", "e", "r", "r", "o", "r", " ", "i", "n",
                    " ", "d", "a", "t", "a">>)])
        /\ (/\ ~ErrorInput(matches_data)
            /\ matches_data.d["matches"].t = "list"
            /\ \A i \in 1..Len(matches_data.d["matches"].items) :
                   CompleteRecord(matches_data.d["matches"].items[i])) =>
              /\ formatted.t = "dict"
              /\ DOMAIN formatted.d = {"matches", "count"}
              /\ formatted.d["count"] = JInt(Len(matches_data.d["matches"].items))
              /\ formatted.d["matches"].t = "list"
              /\ Len(formatted.d["matches"].items) = Len(matches_data.d["matches"].items)
              /\ \A i \in 1..Len(matches_data.d["matches"].items) :
                     SummaryOf(formatted.d["matches"].items[i], matches_data.d["matches"].items[i])

\* two different complete records have been formatted into two different
\* summaries, counted 2
C10_Witness ==
    /\ ReturnedSummaries
    /\ ~ErrorInput(matches_data)
    /\ Len(matches_data.d["matches"].items) = 2
    /\ \A i \in 1..2 : CompleteRecord(matches_data.d["matches"].items[i])
    /\ matches_data.d["matches"].items[1].d["homeTeam"]
           # matches_data.d["matches"].items[2].d["homeTeam"]
    /\ formatted.d["count"] = JInt(2)
    /\ formatted.d["matches"].items[1] # formatted.d["matches"].items[2]

(***************************************************************************)
(* Properties of the orchestrator (Spec)                                   *)
(***************************************************************************)

\* chatbot_response has returned or has been left by an exception
Terminal ==
    pc \in {"done", "aborted"}

\* the date extractor has run and has found a date
DateFound ==
    date_info # Unset /\ date_info.date_str # NoneStr

\* the date extractor has run and has found no date
NoDateFound ==
    date_info # Unset /\ date_info.date_str = NoneStr

\* the data provider answered the fetch by date with a list of matches
\* that carry the keys the formatter reads, the empty list included
AnsweredMatches ==
    /\ provider_outcome.kind = "ok"
    /\ HasKey(provider_outcome.body, "matches")
    /\ ~HasKey(provider_outcome.body, "error")
    /\ provider_outcome.body.d["matches"].t = "list"
    /\ \A i \in 1..Len(provider_outcome.body.d["matches"].items) :
           CompleteRecord(provider_outcome.body.d["matches"].items[i])

\* the data provider answered with another status than success
AnsweredErrorStatus ==
    provider_outcome.kind = "status"

\* C1: for every query in which the date extractor finds a date, the
\* orchestrator never calls the endpoint resolver or the normalizer and
\* issues no dispatched GET; it fetches the matches of the resolved date
\* exactly once; and, the data provider answering with matches, an empty
\* list or an error status, it returns after exactly one narration, of
\* mode "date_matches", of what the date path produced.
C1_DirectDatePath ==
    DateFound =>
        /\ resolver_calls = 0
        /\ normalizer_calls = 0
        /\ gets = <<>>
        /\ Len(fetches) <= 1
        /\ narrations # <<>> => fetches # <<>>
        /\ Terminal => fetches = <<date_info.date_str>>
        /\ ~Terminal => narrations = <<>>
        /\ (Terminal /\ (AnsweredMatches \/ AnsweredErrorStatus)) =>
              /\ pc = "done"
              /\ Len(narrations) = 1
              /\ narrations[1].mode = "date_matches"
              /\ narrations[1].payload = formatted
              /\ narrations[1].sent

\* a query that names a team and a date has been answered from the date
\* path alone: one fetch of that date, matches found, one narration
C1_Witness ==
    /\ pc = "done"
    /\ query = <<"A", "r", "s", "e", "n", "a", "l", " ", "o", "n", " ", "2", "0", "2", "4", "-", "0", "2", "-", "2", "9">>
    /\ fetches = <<<<"2", "0", "2", "4", "-", "0", "2", "-", "2", "9">>>>
    /\ AnsweredMatches
    /\ Len(provider_outcome.body.d["matches"].items) = 2
    /\ Len(narrations) = 1
    /\ narrations[1].mode = "date_matches"
    /\ resolver_calls = 0

\* the values that are false in a condition
AbsentOrEmpty(v) ==
    v \in {JNull, JDict(EmptyMap), JList(<<>>), JInt(0), JStr(<<>>), JBool(FALSE)}

\* what C2 says of the path without a date, absent(v) being what counts as
\* an absent result of the resolver
NoDatePath(absent(_)) ==
    NoDateFound =>
        /\ fetches = <<>>
        /\ resolver_calls <= 1
        /\ pc # "aborted"
        /\ pc = "done" =>
              /\ resolver_calls = 1
              /\ IF absent(endpoint_info)
                 THEN /\ result = [kind |-> "clarification"]
                      /\ normalizer_calls = 0
                      /\ gets = <<>>
                      /\ narrations = <<>>
                 ELSE /\ normalizer_calls = 1
                      /\ Len(gets) <= 1
                      /\ Len(narrations) = 1
                      /\ narrations[1].mode = "api_response"
                      /\ narrations[1].payload
                             = JDict([endpoint_info |-> endpoint_info,
                                      api_response |-> api_response])

IsAbsent(v) ==
    v = JNull

\* C2 as stated: for every query without a date the resolver runs exactly
\* once and no date is fetched; if the resolver returns absent the result
\* is the clarification message and neither the data provider nor the
\* narrator is called; otherwise the normalizer runs exactly once and the
\* narrator runs exactly once, in mode "api_response", on {endpoint_info,
\* api_response}.
C2_AbsentOrNormalized ==
    NoDatePath(IsAbsent)

\* C2, amended: the same, the clarification message being the result
\* whenever the resolver returns absent or a value that is false in a
\* condition, such as {} or [].
C2_EmptyOrNormalized ==
    NoDatePath(AbsentOrEmpty)

\* a query without a date has been resolved to a call, dispatched and
\* narrated once
C2_Witness ==
    /\ pc = "done"
    /\ NoDateFound
    /\ HasKey(endpoint_info, "endpoint")
    /\ resolver_calls = 1
    /\ normalizer_calls = 1
    /\ Len(gets) = 1
    /\ Len(narrations) = 1
    /\ narrations[1].mode = "api_response"

\* the payload of the one narration carries an error
NarratedError ==
    /\ Len(narrations) = 1
    /\ \/ /\ narrations[1].mode = "date_matches"
          /\ HasKey(narrations[1].payload, "error")
       \/ /\ narrations[1].mode = "api_response"
          /\ HasKey(narrations[1].payload.d["api_response"], "error")

\* C3: on both paths, when the data provider fails, by an error status or
\* by a network exception, the query is not aborted: it ends with one
\* narration whose payload carries the error, after a single request to the
\* data provider.
C3_FailureNarrated ==
    (Terminal /\ provider_outcome # Unset
              /\ provider_outcome.kind \in {"status", "exception"}) =>
        /\ pc = "done"
        /\ NarratedError
        /\ Len(fetches) + Len(gets) = 1

\* the first position from pos on at which the braces opened before it are
\* all closed, 0 when there is none
RECURSIVE ClosingBrace(_, _, _)
ClosingBrace(text, pos, depth) ==
    IF pos > Len(text) THEN 0
    ELSE IF text[pos] = "{" THEN ClosingBrace(text, pos + 1, depth + 1)
    ELSE IF text[pos] = "}"
    THEN IF depth = 1 THEN pos ELSE ClosingBrace(text, pos + 1, depth - 1)
    ELSE ClosingBrace(text, pos + 1, depth)

\* the first { of the text, 0 when there is none
FirstBrace(text) ==
    IF \E i \in 1..Len(text) : text[i] = "{"
    THEN CHOOSE i \in 1..Len(text) :
             text[i] = "{" /\ \A j \in 1..(i - 1) : text[j] # "{"
    ELSE 0

\* the text has a first top-level {...} span
HasTopLevelSpan(text) ==
    FirstBrace(text) # 0 /\ ClosingBrace(text, FirstBrace(text) + 1, 1) # 0

FirstTopLevelSpan(text) ==
    SubSeq(text, FirstBrace(text), ClosingBrace(text, FirstBrace(text) + 1, 1))

\* the value of a text that parses as JSON, absent for another text
ParsedOrAbsent(text) ==
    IF IsRaised(json_loads(text)) THEN JNull ELSE json_loads(text)

\* what C5 says the resolver returns for a reply of the model
StatedResolution(reply) ==
    IF reply.kind # "text" THEN JNull
    ELSE IF SearchFenced(reply.text).ok THEN ParsedOrAbsent(SearchFenced(reply.text).text)
    ELSE IF HasTopLevelSpan(reply.text) THEN ParsedOrAbsent(FirstTopLevelSpan(reply.text))
    ELSE JNull

\* C5: the resolver returns the value of the fenced json block of the
\* model's text or, without one, of its first top-level {...} span, and
\* absent when neither is found or the extracted text does not parse; a
\* failing request to the model yields absent; and an absent resolution
\* ends in the clarification message without a request to the data provider.
C5_ExtractionAsStated ==
    llm_reply # Unset =>
        /\ endpoint_info = StatedResolution(llm_reply)
        /\ (pc = "done" /\ StatedResolution(llm_reply) = JNull) =>
              /\ result = [kind |-> "clarification"]
              /\ gets = <<>>
              /\ fetches = <<>>

(***************************************************************************)
(* Properties of the API call normalizer (SpecNorm)                        *)
(***************************************************************************)

\* v is {"error": message}
IsErrorPayload(v) ==
    /\ v.t = "dict"
    /\ DOMAIN v.d = {"error"}
    /\ v.d["error"].t = "str"

\* the call has no endpoint key
MissingEndpoint(info) ==
    ~HasKey(info, "endpoint")

\* the call is for a competition and its id is no text
NonTextCompetitionId(info) ==
    /\ HasKey(info, "endpoint")
    /\ info.d["endpoint"].t = "str"
    /\ OccursAt(info.d["endpoint"].s, <<"/", "c", "o", "m", "p", "e", "t", "i", "t", "i", "o", "n", "s", "/">>, 1)
    /\ HasKey(info, "params")
    /\ HasKey(info.d["params"], "id")
    /\ info.d["params"].d["id"].t # "str"

\* the call has a status filter that is no text
NonTextStatus(info) ==
    /\ HasKey(info, "filters")
    /\ HasKey(info.d["filters"], "status")
    /\ info.d["filters"].d["status"].t # "str"

\* C4: make_football_api_call never lets an exception through: whatever
\* the call it is given and whatever the data provider does, it returns
\* the parsed body of a successful answer or {"error": message}; it issues
\* at most one GET, and none when the call has no endpoint, a competition
\* id that is no text or a status that is no text.
C4_CallNeverRaises ==
    /\ pc # "aborted"
    /\ api_response # Unset => ~IsRaised(api_response)
    /\ Len(gets) <= 1
    /\ pc = "get" => Len(gets) = 1
    /\ pc = "narrate" =>
          /\ normalizer_calls = 1
          /\ \/ /\ Len(gets) = 1
                /\ provider_outcome.kind = "ok"
                /\ api_response = provider_outcome.body
             \/ /\ IsErrorPayload(api_response)
                /\ gets = <<>> \/ provider_outcome.kind # "ok"
          /\ (\/ MissingEndpoint(endpoint_info)
              \/ NonTextCompetitionId(endpoint_info)
              \/ NonTextStatus(endpoint_info)) =>
                 gets = <<>> /\ IsErrorPayload(api_response)

\* a call for a competition whose id is a number has returned an error
\* payload without a request
C4_Witness ==
    /\ pc = "narrate"
    /\ NonTextCompetitionId(endpoint_info)
    /\ ~NonTextStatus(endpoint_info)
    /\ gets = <<>>
    /\ IsErrorPayload(api_response)

\* the endpoint of the call is a text that starts with /competitions/
CompetitionScoped(info) ==
    /\ HasKey(info, "endpoint")
    /\ info.d["endpoint"].t = "str"
    /\ OccursAt(info.d["endpoint"].s, <<"/", "c", "o", "m", "p", "e", "t", "i", "t", "i", "o", "n", "s", "/">>, 1)

\* the call has an endpoint that is a text and a path parameter id that is
\* a text
HasTextId(info) ==
    /\ HasKey(info, "endpoint")
    /\ info.d["endpoint"].t = "str"
    /\ HasKey(info, "params")
    /\ HasKey(info.d["params"], "id")
    /\ info.d["params"].d["id"].t = "str"

\* the id C11 gives a competition-scoped endpoint
StatedCompetitionId(id) ==
    IF \E i \in 1..Len(COMPETITION_CODES) : COMPETITION_CODES[i].name = Lower(id)
    THEN COMPETITION_CODES[CHOOSE i \in 1..Len(COMPETITION_CODES) :
                               COMPETITION_CODES[i].name = Lower(id)].code
    ELSE IF Len(id) <= 3 THEN Upper(id)
    ELSE id

\* the URL C11 gives the call
StatedUrl(info) ==
    <<"h", "t", "t", "p", "s", ":", "/", "/", "a", "p", "i", ".", "f", "o", "o", "t", "b", "a", "l", "l", "-", "d", "a", "t", "a", ".", "o", "r", "g", "/", "v", "4">>
    \o Replace(info.d["endpoint"].s, <<"{", "i", "d", "}">>,
               IF CompetitionScoped(info)
               THEN StatedCompetitionId(info.d["params"].d["id"].s)
               ELSE info.d["params"].d["id"].s)

\* C11: the id substituted into a competition-scoped endpoint is the code of
\* the lower-cased value when the table has one, else the value upper-cased
\* when it has at most three characters, else the value unchanged; into any
\* other endpoint the id is substituted unchanged.
C11_CompetitionIdSubstituted ==
    (Len(gets) = 1 /\ HasTextId(endpoint_info)) =>
        gets[1].url = StatedUrl(endpoint_info)

\* the standings of "Premier League" have been requested under the code PL
C11_Witness ==
    /\ Len(gets) = 1
    /\ CompetitionScoped(endpoint_info)
    /\ HasTextId(endpoint_info)
    /\ endpoint_info.d["params"].d["id"].s = <<"P", "r", "e", "m", "i", "e", "r", " ", "L", "e", "a", "g", "u", "e">>
    /\ gets[1].url = <<"h", "t", "t", "p", "s", ":", "/", "/", "a", "p", "i", ".", "f", "o", "o", "t", "b", "a", "l", "l", "-", "d", "a", "t", "a", ".", "o", "r", "g", "/", "v", "4", "/", "c", "o", "m", "p", "e", "t", "i", "t", "i", "o", "n", "s", "/", "P", "L", "/", "s", "t", "a", "n", "d", "i", "n", "g", "s">>

\* the first of the parses that succeeded, as YYYY-MM-DD, and the text as
\* given when none did
FirstAsIso(parses, text) ==
    IF parses[1].ok THEN IsoText(parses[1].dt)
    ELSE IF parses[2].ok THEN IsoText(parses[2].dt)
    ELSE IF parses[3].ok THEN IsoText(parses[3].dt)
    ELSE IF parses[4].ok THEN IsoText(parses[4].dt)
    ELSE text

\* the value C12 gives a date filter whose value is the text: its parse as
\* YYYY-MM-DD, DD-MM-YYYY, DD/MM/YYYY, MM/DD/YYYY, in that order
StatedDateFilter(text) ==
    FirstAsIso(<<strptime(text, <<"%Y", "-", "%m", "-", "%d">>),
                 strptime(text, <<"%d", "-", "%m", "-", "%Y">>),
                 strptime(text, <<"%d", "/", "%m", "/", "%Y">>),
                 strptime(text, <<"%m", "/", "%d", "/", "%Y">>)>>, text)

\* the call has the filter name, with a text for value
HasTextFilter(info, name) ==
    /\ HasKey(info, "filters")
    /\ HasKey(info.d["filters"], name)
    /\ info.d["filters"].d[name].t = "str"

\* C12: in a dispatched request, the value of a filter date, dateFrom or
\* dateTo is its first successful parse against YYYY-MM-DD, DD-MM-YYYY,
\* DD/MM/YYYY, MM/DD/YYYY, in that order, written as YYYY-MM-DD, and the
\* original value when no format parses it; "04/03/2025" becomes
\* "2025-03-04".
C12_DateFilterReparsed ==
    Len(gets) = 1 =>
        /\ \A name \in {"date", "dateFrom", "dateTo"} :
               HasTextFilter(endpoint_info, name) =>
                   gets[1].params[name]
                       = JStr(StatedDateFilter(endpoint_info.d["filters"].d[name].s))
        /\ (/\ HasTextFilter(endpoint_info, "date")
            /\ endpoint_info.d["filters"].d["date"].s = <<"0", "4", "/", "0", "3", "/", "2", "0", "2", "5">>) =>
               gets[1].params["date"] = JStr(<<"2", "0", "2", "5", "-", "0", "3", "-", "0", "4">>)

\* a request has been dispatched for the date "04/03/2025", read day-first
C12_Witness ==
    /\ Len(gets) = 1
    /\ HasTextFilter(endpoint_info, "date")
    /\ endpoint_info.d["filters"].d["date"].s = <<"0", "4", "/", "0", "3", "/", "2", "0", "2", "5">>
    /\ gets[1].params["date"] = JStr(<<"2", "0", "2", "5", "-", "0", "3", "-", "0", "4">>)
    /\ provider_outcome # Unset

\* the names of the filters of the call for which present(value) holds
FilterNames(info, present(_)) ==
    IF HasKey(info, "filters") /\ info.d["filters"].t = "dict"
    THEN {name \in DOMAIN info.d["filters"].d : present(info.d["filters"].d[name])}
    ELSE {}

AnyValue(v) ==
    TRUE

NotNull(v) ==
    v # JNull

\* the text of a value as a query string carries it
SentText(v) ==
    IF v.t = "str" THEN v.s
    ELSE IF v.t = "int" THEN DecStr(v.n)
    ELSE <<"?">>

\* the status C14 has sent for the text of a status filter
StatedStatus(text) ==
    IF \E i \in 1..Len(STATUS_MAPPING) : STATUS_MAPPING[i].name = Lower(text)
    THEN STATUS_MAPPING[CHOOSE i \in 1..Len(STATUS_MAPPING) :
                            STATUS_MAPPING[i].name = Lower(text)].code
    ELSE text

\* what C14 says of a dispatched request, present(value) telling which
\* filters are sent
FiltersSent(present(_)) ==
    Len(gets) = 1 =>
        /\ DOMAIN gets[1].query = FilterNames(endpoint_info, present)
        /\ \A name \in DOMAIN gets[1].query :
               IF name \in {"date", "dateFrom", "dateTo"} THEN TRUE
               ELSE IF name = "status"
               THEN gets[1].query[name]
                        = StatedStatus(endpoint_info.d["filters"].d[name].s)
               ELSE gets[1].query[name] = SentText(endpoint_info.d["filters"].d[name])

StatedEmbedding(text) ==
    IF Len(text) <= 10000 THEN text
    ELSE SubSeq(text, 1, 10000) \o <<".", ".", ".">>

\* the payload a narration serializes: what the date path produced in the
\* mode "date_matches", the answer of the data provider in the mode
\* "api_response"
SerializedPayload(narration) ==
    IF narration.mode = "date_matches" THEN json_dumps(narration.payload)
    ELSE json_dumps(narration.payload.d["api_response"])

\* C13: in both modes the payload text of a prompt that is sent is the
\* serialized payload when that has at most 10,000 characters and
\* otherwise its first 10,000 characters followed by an ellipsis, so that
\* it never has more than 10,003 characters.
C13_PayloadTruncated ==
    \A i \in 1..Len(narrations) :
        narrations[i].sent =>
            /\ Len(narrations[i].embedded) <= 10003
            /\ narrations[i].embedded = StatedEmbedding(SerializedPayload(narrations[i]))

(***************************************************************************)
(* Failures of the match formatter (SpecFormat)                            *)
(***************************************************************************)

\* the raw record carries the competition name, the short names of both
\* teams, the status and the date
HasRequiredKeys(m) ==
    /\ m.t = "dict"
    /\ HasKey(m, "competition") /\ HasKey(m.d["competition"], "name")
    /\ HasKey(m, "homeTeam") /\ HasKey(m.d["homeTeam"], "shortName")
    /\ HasKey(m, "awayTeam") /\ HasKey(m.d["awayTeam"], "shortName")
    /\ HasKey(m, "status")
    /\ HasKey(m, "utcDate")

\* C15: for a list of records that all carry the required keys the
\* formatter returns {matches, count}, whichever of score, its fullTime
\* part and the home and away values are missing; when a record lacks a
\* required key the call fails and returns nothing.
C15_OnlyRequiredKeysAbort ==
    (/\ pc = "formatted"
     /\ ~ErrorInput(matches_data)
     /\ matches_data.d["matches"].t = "list") =>
        IF \A i \in 1..Len(matches_data.d["matches"].items) :
               HasRequiredKeys(matches_data.d["matches"].items[i])
        THEN /\ ~IsRaised(formatted)
             /\ formatted.t = "dict"
             /\ DOMAIN formatted.d = {"matches", "count"}
        ELSE IsRaised(formatted)

\* q's only date-shaped text is one DD/MM/YYYY token standing at position i:
\* no other text of q has one of the four shapes, except the token's own
\* DD/MM/YY prefix, and no digit stands against the token
OnlySlashDateAt(q, i) ==
    /\ ShapeAt(q, Shapes[3], i)
    /\ \A j \in 1..Len(q) :
          /\ ~ShapeAt(q, Shapes[1], j)
          /\ ~ShapeAt(q, Shapes[2], j)
          /\ ShapeAt(q, Shapes[3], j) => j = i
          /\ ShapeAt(q, Shapes[4], j) => j = i
    /\ (i > 1 => ~IsDigit(q[i - 1]))
    /\ (i + 10 <= Len(q) => ~IsDigit(q[i + 10]))

\* C16: for a query with no relative keyword whose only date-shaped text is
\* a single DD/MM/YYYY token, the extractor returns either the calendar date
\* that token denotes (same day, month and four-digit year) with kind
\* "specific", or absent; an invalid token is never re-read through its
\* DD/MM/YY prefix as a date of another year.
C16_SlashDateOrAbsent ==
    (pc = "date_parsed" /\ ~HasRelativeWord(query)) =>
        \A i \in 1..Len(query) :
            OnlySlashDateAt(query, i) =>
                \/ date_info.date_str = NoneStr /\ date_info.date_type = "None"
                \/ /\ date_info.date_type = "specific"
                   /\ IsCalendarDate(ShapeDate(query, Shapes[3], i))
                   /\ date_info.date_str = IsoText(ShapeDate(query, Shapes[3], i))

\* a valid DD/MM/YYYY token, the only date-shaped text of its query, has been
\* returned as the date it denotes
C16_ValidTokenReturned ==
    /\ pc = "date_parsed"
    /\ ~HasRelativeWord(query)
    /\ \E i \in 1..Len(query) :
          /\ OnlySlashDateAt(query, i)
          /\ IsCalendarDate(ShapeDate(query, Shapes[3], i))
          /\ date_info.date_str = IsoText(ShapeDate(query, Shapes[3], i))

====
